---- MODULE Spec2Model ----
(***************************************************************************)
(* Model of the metadata catalog service (krishnaak114/metadata-service):  *)
(* datasets, their columns and the directed lineage edges between them,    *)
(* with the DFS cycle check that keeps the edge set a DAG.                 *)
(*                                                                         *)
(* Conventions.                                                            *)
(*   - A Python str is a sequence of one-character strings, so that        *)
(*     strip(), lower() and the dot-join of the FQN are computed.          *)
(*   - Optional[T] is a sequence of length 0 (None) or 1 (the value).      *)
(*   - A table is the collection of its rows.  `datasets` rows carry the   *)
(*     autoincrement surrogate id; `lineage` and `dataset_columns` rows    *)
(*     are kept as bags (multisets) of their non-key fields, so that two   *)
(*     rows with equal fields are two rows and uniqueness is a property    *)
(*     of the code, not of the representation.                             *)
(*   - One action is one HTTP request handled to completion: schema        *)
(*     validation, service function, commit/rollback and the router's      *)
(*     status mapping.  `response` holds the last request's outcome.       *)
(***************************************************************************)
EXTENDS Integers, Sequences, FiniteSets, Bags, TLC

VARIABLES
    datasets,         \* table "datasets": set of rows
    dataset_columns,  \* table "dataset_columns": bag of rows
    lineage,          \* table "lineage": bag of rows [upstream_id, downstream_id]
    next_dataset_id,  \* AUTO_INCREMENT counter of datasets.id
    response,         \* outcome of the last request handled to completion
    sessions,         \* concurrent requests in flight: session -> its locals
    graph_call,       \* last direct call of a function of app/utils/graph.py
    client            \* what a scripted API client remembers between requests

store == <<datasets, dataset_columns, lineage, next_dataset_id>>
vars ==
    <<datasets, dataset_columns, lineage, next_dataset_id, response, sessions,
      graph_call, client>>

(***************************************************************************)
(* Bounds                                                                  *)
(***************************************************************************)
\* Largest surrogate id the datasets table hands out in a behaviour.
MaxDatasetId == 3

\* Node ids of the adjacency maps the graph functions are called with directly.
MaxNode == 3

\* Longest edge list build_adjacency is called with directly.
MaxEdges == 3

(***************************************************************************)
(* Strings                                                                 *)
(***************************************************************************)
None == <<>>
Some(v) == <<v>>

IsSpace(ch) == ch = " "

\* str.lower() on one character of the model's alphabet
LowerChar(ch) ==
    CASE ch = "A" -> "a"
      [] ch = "B" -> "b"
      [] ch = "C" -> "c"
      [] ch = "I" -> "i"
      [] ch = "S" -> "s"
      [] OTHER -> ch

UpperChar(ch) ==
    CASE ch = "a" -> "A"
      [] ch = "b" -> "B"
      [] ch = "c" -> "C"
      [] ch = "i" -> "I"
      [] ch = "s" -> "S"
      [] OTHER -> ch

lower(s) == [i \in 1..Len(s) |-> LowerChar(s[i])]
upper(s) == [i \in 1..Len(s) |-> UpperChar(s[i])]

RECURSIVE lstrip(_)
lstrip(s) == IF s # <<>> /\ IsSpace(Head(s)) THEN lstrip(Tail(s)) ELSE s

RECURSIVE rstrip(_)
rstrip(s) ==
    IF s # <<>> /\ IsSpace(s[Len(s)]) THEN rstrip(SubSeq(s, 1, Len(s) - 1)) ELSE s

strip(s) == rstrip(lstrip(s))

Dot == <<".">>

(***************************************************************************)
(* app/schemas/dataset.py                                                  *)
(***************************************************************************)
\* Mutant: the component is trimmed but keeps its letter case.
normalize_component_strip_only(v) == strip(v)

\* DatasetCreate.normalize_component (mode="before")
normalize_component(v) == lower(strip(v))

\* ColumnBase.strip_name (mode="before")
strip_name(v) == strip(v)

\* DatasetCreate after its before-validators have run
DatasetCreate(raw) ==
    [connection_name |-> normalize_component(raw.connection_name),
     database_name   |-> normalize_component(raw.database_name),
     schema_name     |-> normalize_component(raw.schema_name),
     table_name      |-> normalize_component(raw.table_name),
     source_system   |-> raw.source_system,
     description     |-> raw.description,
     columns         |-> [i \in 1..Len(raw.columns) |->
                            [name        |-> strip_name(raw.columns[i].name),
                             data_type   |-> raw.columns[i].data_type,
                             description |-> raw.columns[i].description]]]

\* Field(..., min_length=1) on the four components and on every column name
DatasetCreateValid(p) ==
    /\ Len(p.connection_name) >= 1
    /\ Len(p.database_name) >= 1
    /\ Len(p.schema_name) >= 1
    /\ Len(p.table_name) >= 1
    /\ \A i \in 1..Len(p.columns) : Len(p.columns[i].name) >= 1

\* Mutant: the components are joined without a separator.
fqn_unseparated(p) ==
    p.connection_name \o p.database_name \o p.schema_name \o p.table_name

\* DatasetCreate.fqn
fqn(p) ==
    p.connection_name \o Dot \o p.database_name \o Dot \o p.schema_name
        \o Dot \o p.table_name

\* DatasetUpdate: columns get ColumnBase.strip_name
DatasetUpdate(raw) ==
    [source_system |-> raw.source_system,
     description   |-> raw.description,
     columns       |->
        IF raw.columns = None THEN None
        ELSE Some([i \in 1..Len(raw.columns[1]) |->
                    [name        |-> strip_name(raw.columns[1][i].name),
                     data_type   |-> raw.columns[1][i].data_type,
                     description |-> raw.columns[1][i].description]])]

DatasetUpdateValid(p) ==
    p.columns = None
    \/ \A i \in 1..Len(p.columns[1]) : Len(p.columns[1][i].name) >= 1

\* LineageCreate.check_not_self_loop: raw string comparison of the two FQNs
\* (Field(min_length=1) on both).
check_not_self_loop_bug(upstream_fqn, downstream_fqn) == TRUE

check_not_self_loop(upstream_fqn, downstream_fqn) ==
    upstream_fqn # downstream_fqn

LineageCreateValid(upstream_fqn, downstream_fqn) ==
    /\ Len(upstream_fqn) >= 1
    /\ Len(downstream_fqn) >= 1
    /\ check_not_self_loop(upstream_fqn, downstream_fqn)

(***************************************************************************)
(* app/utils/graph.py                                                      *)
(***************************************************************************)
\* The elements of a finite set of integers in ascending order: the order in
\* which CPython iterates a set of small non-negative ints.
RECURSIVE SetToSeq(_)
SetToSeq(S) ==
    IF S = {} THEN <<>>
    ELSE LET m == CHOOSE x \in S : \A y \in S : x <= y
         IN <<m>> \o SetToSeq(S \ {m})

\* adjacency.get(node, set())
AdjGet(adjacency, node) ==
    IF node \in DOMAIN adjacency THEN adjacency[node] ELSE {}

\* Mutant: only the start node is expanded.
RECURSIVE dfs_loop_one_hop(_, _, _, _)
dfs_loop_one_hop(upstream_id, adjacency, stack, visited) ==
    IF stack = <<>> THEN FALSE
    ELSE LET node == stack[Len(stack)]
             rest == SubSeq(stack, 1, Len(stack) - 1)
         IN IF node = upstream_id THEN TRUE
            ELSE IF node \in visited \/ visited # {} THEN
                dfs_loop_one_hop(upstream_id, adjacency, rest, visited)
            ELSE
                LET visited2 == visited \cup {node}
                    pushed == SetToSeq({n \in AdjGet(adjacency, node) :
                                            n \notin visited2})
                IN dfs_loop_one_hop(upstream_id, adjacency, rest \o pushed, visited2)

\* The while-loop of would_create_cycle on its two locals, stack and visited.
RECURSIVE dfs_loop(_, _, _, _)
dfs_loop(upstream_id, adjacency, stack, visited) ==
    IF stack = <<>> THEN FALSE
    ELSE LET node == stack[Len(stack)]
             rest == SubSeq(stack, 1, Len(stack) - 1)
         IN IF node = upstream_id THEN TRUE
            ELSE IF node \in visited THEN
                dfs_loop(upstream_id, adjacency, rest, visited)
            ELSE
                LET visited2 == visited \cup {node}
                    pushed == SetToSeq({n \in AdjGet(adjacency, node) :
                                            n \notin visited2})
                IN dfs_loop(upstream_id, adjacency, rest \o pushed, visited2)

\* Mutant: only the direct reverse edge is looked at, no traversal.
would_create_cycle_direct(upstream_id, downstream_id, adjacency) ==
    \/ upstream_id = downstream_id
    \/ upstream_id \in AdjGet(adjacency, downstream_id)

\* Mutant: the traversal starts at the wrong endpoint.
would_create_cycle_swapped(upstream_id, downstream_id, adjacency) ==
    IF upstream_id = downstream_id THEN TRUE
    ELSE dfs_loop(downstream_id, adjacency, <<upstream_id>>, {})

\* Mutant: the traversal follows edges in both directions.
would_create_cycle_undirected(upstream_id, downstream_id, adjacency) ==
    LET nodes == DOMAIN adjacency \cup UNION {adjacency[k] : k \in DOMAIN adjacency}
        both == [k \in nodes |->
                    AdjGet(adjacency, k)
                        \cup {n \in DOMAIN adjacency : k \in adjacency[n]}]
    IN IF upstream_id = downstream_id THEN TRUE
       ELSE dfs_loop(upstream_id, both, <<downstream_id>>, {})

would_create_cycle(upstream_id, downstream_id, adjacency) ==
    IF upstream_id = downstream_id THEN TRUE
    ELSE dfs_loop(upstream_id, adjacency, <<downstream_id>>, {})

\* Mutant: a popped node is expanded without looking it up in visited.
RECURSIVE dfs_expand_unchecked(_, _, _, _, _)
dfs_expand_unchecked(upstream_id, adjacency, stack, visited, expanded) ==
    IF stack = <<>> THEN [result |-> FALSE, expanded |-> expanded]
    ELSE LET node == stack[Len(stack)]
             rest == SubSeq(stack, 1, Len(stack) - 1)
         IN IF node = upstream_id THEN [result |-> TRUE, expanded |-> expanded]
            ELSE
                LET visited2 == visited \cup {node}
                    pushed == SetToSeq({n \in AdjGet(adjacency, node) :
                                            n \notin visited2})
                IN dfs_expand_unchecked(upstream_id, adjacency, rest \o pushed,
                                        visited2, Append(expanded, node))

\* The while-loop of would_create_cycle once more, returning next to its
\* result the nodes it expanded (visited.add(node) and the for-loop over the
\* node's neighbours), in the order of expansion.
RECURSIVE dfs_expand(_, _, _, _, _)
dfs_expand(upstream_id, adjacency, stack, visited, expanded) ==
    IF stack = <<>> THEN [result |-> FALSE, expanded |-> expanded]
    ELSE LET node == stack[Len(stack)]
             rest == SubSeq(stack, 1, Len(stack) - 1)
         IN IF node = upstream_id THEN [result |-> TRUE, expanded |-> expanded]
            ELSE IF node \in visited THEN
                dfs_expand(upstream_id, adjacency, rest, visited, expanded)
            ELSE
                LET visited2 == visited \cup {node}
                    pushed == SetToSeq({n \in AdjGet(adjacency, node) :
                                            n \notin visited2})
                IN dfs_expand(upstream_id, adjacency, rest \o pushed, visited2,
                              Append(expanded, node))

\* would_create_cycle, with the nodes its loop expanded
would_create_cycle_expand(upstream_id, downstream_id, adjacency) ==
    IF upstream_id = downstream_id THEN [result |-> TRUE, expanded |-> <<>>]
    ELSE dfs_expand(upstream_id, adjacency, <<downstream_id>>, {}, <<>>)

\* Mutant: the set of a key seen before is replaced, not extended.
setdefault_add_overwrite(adj, u, d) ==
    [k \in DOMAIN adj \cup {u} |-> IF k = u THEN {d} ELSE adj[k]]

\* adj.setdefault(u, set()).add(d)
setdefault_add(adj, u, d) ==
    [k \in DOMAIN adj \cup {u} |->
        IF k = u THEN AdjGet(adj, u) \cup {d} ELSE adj[k]]

RECURSIVE build_adjacency_loop(_, _)
build_adjacency_loop(edges, adj) ==
    IF edges = <<>> THEN adj
    ELSE build_adjacency_loop(
            Tail(edges),
            setdefault_add(adj, Head(edges).upstream_id, Head(edges).downstream_id))

build_adjacency(edges) == build_adjacency_loop(edges, <<>>)

(***************************************************************************)
(* The record store (SQLAlchemy session over the tables of app/models/orm) *)
(***************************************************************************)
\* select(Lineage).all(): every row of the table, each as often as it is
\* stored, in (upstream_id, downstream_id) order.
RECURSIVE BagRows(_)
BagRows(B) ==
    IF BagToSet(B) = {} THEN <<>>
    ELSE LET S == BagToSet(B)
             r == CHOOSE x \in S : \A y \in S :
                    \/ x.upstream_id < y.upstream_id
                    \/ /\ x.upstream_id = y.upstream_id
                       /\ x.downstream_id <= y.downstream_id
         IN [i \in 1..CopiesIn(r, B) |-> r] \o BagRows([x \in S \ {r} |-> B[x]])

LineageRow(u, d) == [upstream_id |-> u, downstream_id |-> d]

\* Mutant: a lookup that falls back to some row when nothing matches.
get_dataset_by_fqn_any(rows, f) ==
    IF \E ds \in rows : ds.fqn = f
    THEN Some(CHOOSE ds \in rows : ds.fqn = f)
    ELSE IF rows # {} THEN Some(CHOOSE ds \in rows : TRUE)
    ELSE None

\* select(Dataset).where(Dataset.fqn == fqn) -> scalar: the row, or None
get_dataset_by_fqn(rows, f) ==
    IF \E ds \in rows : ds.fqn = f
    THEN Some(CHOOSE ds \in rows : ds.fqn = f)
    ELSE None

\* Mutant: the duplicate lookup never finds a row.
get_edge_none(edges, u, d) == None

\* Mutant: the lookup ignores the direction of the edge.
get_edge_undirected(edges, u, d) ==
    IF BagIn(LineageRow(u, d), edges) THEN Some(LineageRow(u, d))
    ELSE IF BagIn(LineageRow(d, u), edges) THEN Some(LineageRow(d, u))
    ELSE None

\* select(Lineage).where(upstream_id == u, downstream_id == d) -> scalar
get_edge(edges, u, d) ==
    IF BagIn(LineageRow(u, d), edges) THEN Some(LineageRow(u, d)) ELSE None

\* Mutant: the adjacency map of the call that was refused is used again.
_load_full_adjacency_cached(edges) ==
    IF client.pc = "rejected" THEN build_adjacency(BagRows(client.seen))
    ELSE build_adjacency(BagRows(edges))

\* _load_full_adjacency
_load_full_adjacency(edges) == build_adjacency(BagRows(edges))

(***************************************************************************)
(* Responses: the exception raised by the service (app/exceptions.py), the *)
(* HTTP status the router maps it to, the message template and the FQNs    *)
(* the message names, in the order of the f-string.                        *)
(***************************************************************************)
Resp(op, status, error, message, names) ==
    [op |-> op, status |-> status, error |-> error,
     message |-> message, names |-> names]

\* Body validation by FastAPI/pydantic before the route function is entered
\* (the 422 body echoes the rejected input)
ValidationError(op, names) ==
    Resp(op, 422, "RequestValidationError", "validation", names)

\* An exception no router catches: the session is closed without commit
\* (get_db's finally), the client gets 500.
IntegrityError(op, names) == Resp(op, 500, "IntegrityError", "constraint", names)

\* Mutant: the table has no constraint on (dataset_id, name).
uq_column_dataset_name_absent(cols) == TRUE

\* UniqueConstraint("dataset_id", "name", name="uq_column_dataset_name")
uq_column_dataset_name(cols) ==
    \A c \in BagToSet(cols) :
        Cardinality({x \in BagToSet(cols) :
                        x.dataset_id = c.dataset_id /\ x.name = c.name}) = 1
        /\ CopiesIn(c, cols) = 1

\* UniqueConstraint("upstream_id", "downstream_id", name="uq_lineage_edge")
uq_lineage_edge(edges) ==
    \A e \in BagToSet(edges) : CopiesIn(e, edges) = 1

\* Column(unique=True) on datasets.fqn
uq_dataset_fqn(rows) ==
    \A x, y \in rows : x.fqn = y.fqn => x = y

\* The DatasetColumn rows built from a validated column list
ColumnRows(dataset_id, cols) ==
    LET row(i) == [dataset_id  |-> dataset_id,
                   name        |-> strip(cols[i].name),
                   data_type   |-> upper(strip(cols[i].data_type)),
                   description |-> cols[i].description]
        RECURSIVE upto(_)
        upto(n) == IF n = 0 THEN EmptyBag ELSE upto(n - 1) (+) SetToBag({row(n)})
    IN upto(Len(cols))

\* Rows of a bag that satisfy / do not satisfy a predicate on the row
BagWithout(B, Drop(_)) == [x \in {y \in BagToSet(B) : ~Drop(y)} |-> B[x]]

(***************************************************************************)
(* app/services/dataset_service.py behind app/routers/datasets.py          *)
(***************************************************************************)
\* Dataset(fqn=fqn, connection_name=..., ...) with the id the insert assigns
DatasetRow(id, payload) ==
    [id              |-> id,
     fqn             |-> fqn(payload),
     connection_name |-> payload.connection_name,
     database_name   |-> payload.database_name,
     schema_name     |-> payload.schema_name,
     table_name      |-> payload.table_name,
     source_system   |-> payload.source_system,
     description     |-> payload.description]

create_dataset(raw) ==
    LET payload == DatasetCreate(raw)
        f == fqn(payload)
        dataset == DatasetRow(next_dataset_id, payload)
        cols == dataset_columns (+) ColumnRows(next_dataset_id, payload.columns)
    IN  IF ~DatasetCreateValid(payload) THEN
            /\ response' = ValidationError("create_dataset", <<>>)
            /\ UNCHANGED store
        ELSE IF get_dataset_by_fqn(datasets, f) # None THEN
            /\ response' = Resp("create_dataset", 409, "ConflictError",
                                "already exists", <<f>>)
            /\ UNCHANGED store
        ELSE IF ~uq_dataset_fqn(datasets \cup {dataset})
                \/ ~uq_column_dataset_name(cols) THEN
            \* db.commit() raises; nothing of the transaction is kept
            /\ response' = IntegrityError("create_dataset", <<f>>)
            /\ UNCHANGED store
        ELSE
            /\ next_dataset_id <= MaxDatasetId
            /\ datasets' = datasets \cup {dataset}
            /\ dataset_columns' = cols
            /\ next_dataset_id' = next_dataset_id + 1
            /\ response' = Resp("create_dataset", 201, "none", "created", <<f>>)
            /\ UNCHANGED lineage

\* Mutant: what the session has flushed stays in the tables.
rollback_flushed(before, after) == after

\* get_db's finally: db.close() on a session whose commit raised or that was
\* never committed; the open transaction is rolled back, so a table is what
\* it was before the request (`after` is what the request had flushed).
rollback(before, after) == before

\* Mutant: the old columns are not deleted before the new ones are attached.
delete_columns_none(cols, dataset) == cols

\* for col in dataset.columns: db.delete(col), then db.flush()
delete_columns(cols, dataset) ==
    BagWithout(cols, LAMBDA c : c.dataset_id = dataset.id)

update_dataset(f, raw) ==
    LET payload == DatasetUpdate(raw)
        found == get_dataset_by_fqn(datasets, f)
        dataset == found[1]
        updated == [dataset EXCEPT
                      !.source_system = IF payload.source_system # None
                                        THEN payload.source_system[1] ELSE @,
                      !.description   = IF payload.description # None
                                        THEN payload.description ELSE @]
        flushed == delete_columns(dataset_columns, dataset)
        cols == IF payload.columns # None
                THEN flushed (+) ColumnRows(dataset.id, payload.columns[1])
                ELSE dataset_columns
    IN  IF ~DatasetUpdateValid(payload) THEN
            /\ response' = ValidationError("update_dataset", <<f>>)
            /\ UNCHANGED store
        ELSE IF found = None THEN
            /\ response' = Resp("update_dataset", 404, "NotFoundError",
                                "not found", <<f>>)
            /\ UNCHANGED store
        ELSE IF ~uq_column_dataset_name(cols) THEN
            \* db.commit() raises on the INSERT of the new columns
            /\ response' = IntegrityError("update_dataset", <<f>>)
            /\ datasets' = rollback(datasets, datasets)
            /\ dataset_columns' = rollback(dataset_columns, flushed)
            /\ UNCHANGED <<lineage, next_dataset_id>>
        ELSE
            /\ datasets' = (datasets \ {dataset}) \cup {updated}
            /\ dataset_columns' = cols
            /\ response' = Resp("update_dataset", 200, "none", "updated", <<f>>)
            /\ UNCHANGED <<lineage, next_dataset_id>>

\* Mutant: the columns relationship does not cascade the delete.
cascade_columns_kept(cols, dataset) == cols

\* relationship("DatasetColumn", cascade="all, delete-orphan"): the column
\* table once the dataset's columns are deleted with it
cascade_columns(cols, dataset) ==
    BagWithout(cols, LAMBDA c : c.dataset_id = dataset.id)

\* Mutant: the edge relationships do not cascade the delete.
cascade_edges_kept(edges, dataset) == edges

\* relationship("Lineage", cascade="all, delete-orphan") on downstream_edges
\* and on upstream_edges: the edge table once the dataset's edges are deleted
cascade_edges(edges, dataset) ==
    BagWithout(edges, LAMBDA e : \/ e.upstream_id = dataset.id
                                 \/ e.downstream_id = dataset.id)

\* db.delete(dataset); db.commit()
delete_dataset(f) ==
    LET found == get_dataset_by_fqn(datasets, f)
        dataset == found[1]
    IN  IF found = None THEN
            /\ response' = Resp("delete_dataset", 404, "NotFoundError",
                                "not found", <<f>>)
            /\ UNCHANGED store
        ELSE
            /\ datasets' = datasets \ {dataset}
            /\ dataset_columns' = cascade_columns(dataset_columns, dataset)
            /\ lineage' = cascade_edges(lineage, dataset)
            /\ response' = Resp("delete_dataset", 204, "none", "deleted", <<f>>)
            /\ UNCHANGED next_dataset_id

(***************************************************************************)
(* app/services/lineage_service.py behind app/routers/lineage.py           *)
(***************************************************************************)
\* db.add(edge); db.commit()
insert_edge(edges, u, d) == edges (+) SetToBag({LineageRow(u, d)})

\* Mutant: the DELETE matches on the upstream column alone.
delete_edge_by_upstream(edges, edge) ==
    [x \in {y \in BagToSet(edges) : y.upstream_id # edge.upstream_id} |-> edges[x]]

\* db.delete(edge); db.commit(): the one row the lookup returned
delete_edge(edges, edge) == edges (-) SetToBag({edge})

\* ForeignKey("datasets.id") on lineage.upstream_id and lineage.downstream_id
fk_lineage_datasets(edges, rows) ==
    \A e \in BagToSet(edges) :
        /\ \E ds \in rows : ds.id = e.upstream_id
        /\ \E ds \in rows : ds.id = e.downstream_id

\* Mutant: the downstream dataset is looked up before the upstream one.
add_lineage_downstream_first(upstream_fqn, downstream_fqn) ==
    LET upstream == get_dataset_by_fqn(datasets, upstream_fqn)
        downstream == get_dataset_by_fqn(datasets, downstream_fqn)
        u == upstream[1].id
        d == downstream[1].id
        names == <<upstream_fqn, downstream_fqn>>
    IN  IF downstream = None THEN
            /\ response' = Resp("add_lineage", 404, "NotFoundError",
                                "downstream not found", <<downstream_fqn>>)
            /\ UNCHANGED store
        ELSE IF upstream = None THEN
            /\ response' = Resp("add_lineage", 404, "NotFoundError",
                                "upstream not found", <<upstream_fqn>>)
            /\ UNCHANGED store
        ELSE IF get_edge(lineage, u, d) # None THEN
            /\ response' = Resp("add_lineage", 409, "ConflictError",
                                "already exists", names)
            /\ UNCHANGED store
        ELSE IF would_create_cycle(u, d, _load_full_adjacency(lineage)) THEN
            /\ response' = Resp("add_lineage", 422, "CycleError",
                                "would create a cycle", names)
            /\ UNCHANGED store
        ELSE IF ~uq_lineage_edge(insert_edge(lineage, u, d)) THEN
            \* db.commit() raises; the insert is rolled back
            /\ response' = IntegrityError("add_lineage", names)
            /\ UNCHANGED store
        ELSE
            /\ lineage' = insert_edge(lineage, u, d)
            /\ response' = Resp("add_lineage", 201, "none", "created", names)
            /\ UNCHANGED <<datasets, dataset_columns, next_dataset_id>>

\* The service function lineage_service.add_lineage; `status` is what
\* routers/lineage.add_lineage answers for its outcome.
add_lineage(upstream_fqn, downstream_fqn) ==
    LET upstream == get_dataset_by_fqn(datasets, upstream_fqn)
        downstream == get_dataset_by_fqn(datasets, downstream_fqn)
        u == upstream[1].id
        d == downstream[1].id
        names == <<upstream_fqn, downstream_fqn>>
    IN  IF upstream = None THEN
            /\ response' = Resp("add_lineage", 404, "NotFoundError",
                                "upstream not found", <<upstream_fqn>>)
            /\ UNCHANGED store
        ELSE IF downstream = None THEN
            /\ response' = Resp("add_lineage", 404, "NotFoundError",
                                "downstream not found", <<downstream_fqn>>)
            /\ UNCHANGED store
        ELSE IF get_edge(lineage, u, d) # None THEN
            /\ response' = Resp("add_lineage", 409, "ConflictError",
                                "already exists", names)
            /\ UNCHANGED store
        ELSE IF would_create_cycle(u, d, _load_full_adjacency(lineage)) THEN
            /\ response' = Resp("add_lineage", 422, "CycleError",
                                "would create a cycle", names)
            /\ UNCHANGED store
        ELSE IF ~uq_lineage_edge(insert_edge(lineage, u, d)) THEN
            \* db.commit() raises; the insert is rolled back
            /\ response' = IntegrityError("add_lineage", names)
            /\ UNCHANGED store
        ELSE
            /\ lineage' = insert_edge(lineage, u, d)
            /\ response' = Resp("add_lineage", 201, "none", "created", names)
            /\ UNCHANGED <<datasets, dataset_columns, next_dataset_id>>

\* POST /lineage: the body is validated as a LineageCreate before the route
\* function, and so the service, is entered.
post_lineage(upstream_fqn, downstream_fqn) ==
    IF ~LineageCreateValid(upstream_fqn, downstream_fqn) THEN
        /\ response' = ValidationError("add_lineage",
                                       <<upstream_fqn, downstream_fqn>>)
        /\ UNCHANGED store
    ELSE add_lineage(upstream_fqn, downstream_fqn)

remove_lineage(upstream_fqn, downstream_fqn) ==
    LET upstream == get_dataset_by_fqn(datasets, upstream_fqn)
        downstream == get_dataset_by_fqn(datasets, downstream_fqn)
        u == upstream[1].id
        d == downstream[1].id
        edge == get_edge(lineage, u, d)
    IN  IF upstream = None THEN
            /\ response' = Resp("remove_lineage", 404, "NotFoundError",
                                "upstream not found", <<upstream_fqn>>)
            /\ UNCHANGED store
        ELSE IF downstream = None THEN
            /\ response' = Resp("remove_lineage", 404, "NotFoundError",
                                "downstream not found", <<downstream_fqn>>)
            /\ UNCHANGED store
        ELSE IF edge = None THEN
            /\ response' = Resp("remove_lineage", 404, "NotFoundError",
                                "edge does not exist",
                                <<upstream_fqn, downstream_fqn>>)
            /\ UNCHANGED store
        ELSE
            /\ lineage' = delete_edge(lineage, edge[1])
            /\ response' = Resp("remove_lineage", 204, "none", "removed",
                                <<upstream_fqn, downstream_fqn>>)
            /\ UNCHANGED <<datasets, dataset_columns, next_dataset_id>>

(***************************************************************************)
(* Requests of the sequential specification                                *)
(***************************************************************************)
Str1(a) == <<a>>

RawDataset(table) ==
    [connection_name |-> Str1("s"), database_name |-> Str1("d"),
     schema_name |-> Str1("x"), table_name |-> table,
     source_system |-> "Snowflake", description |-> None, columns |-> <<>>]

\* Three datasets, as in the tests' three_layer fixture (raw, clean, agg)
CreateInputs == {RawDataset(Str1(t)) : t \in {"a", "b", "c"}}

\* The FQNs requests name: those of the datasets that can be created; such an
\* FQN is missing while its dataset is not (or no longer) in the catalog.
FqnInputs == {fqn(DatasetCreate(raw)) : raw \in CreateInputs}

\* One PUT body: the source-system tag alone (description and columns
\* omitted).  The lineage properties do not depend on the scalar fields, so
\* the tag sent is the one the datasets were created with.
UpdateInputs ==
    {[source_system |-> Some("Snowflake"), description |-> None, columns |-> None]}

NoCall == [fn |-> "none"]
NoSessions == <<>>
Idle == [pc |-> "idle"]

Init ==
    /\ datasets = {}
    /\ dataset_columns = EmptyBag
    /\ lineage = EmptyBag
    /\ next_dataset_id = 1
    /\ response = Resp("init", 0, "none", "init", <<>>)
    /\ sessions = NoSessions
    /\ graph_call = NoCall
    /\ client = Idle

CreateDataset ==
    /\ \E raw \in CreateInputs : create_dataset(raw)
    /\ UNCHANGED <<sessions, graph_call, client>>

UpdateDataset ==
    /\ \E f \in FqnInputs, raw \in UpdateInputs : update_dataset(f, raw)
    /\ UNCHANGED <<sessions, graph_call, client>>

DeleteDataset ==
    /\ \E f \in FqnInputs : delete_dataset(f)
    /\ UNCHANGED <<sessions, graph_call, client>>

AddLineage ==
    /\ \E u, d \in FqnInputs : add_lineage(u, d)
    /\ UNCHANGED <<sessions, graph_call, client>>

PostLineage ==
    /\ \E u, d \in FqnInputs : post_lineage(u, d)
    /\ UNCHANGED <<sessions, graph_call, client>>

RemoveLineage ==
    /\ \E u, d \in FqnInputs : remove_lineage(u, d)
    /\ UNCHANGED <<sessions, graph_call, client>>

Next ==
    \/ CreateDataset
    \/ UpdateDataset
    \/ DeleteDataset
    \/ AddLineage
    \/ PostLineage
    \/ RemoveLineage

Spec == Init /\ [][Next]_vars

(***************************************************************************)
(* Lineage requests on a catalog of four datasets (the diamond of          *)
(* tests/test_lineage.py), issued by one client that remembers the edge    *)
(* list it saw before an add so that it can compare after undoing it.      *)
(***************************************************************************)
FourInputs == <<RawDataset(Str1("a")), RawDataset(Str1("b")),
                RawDataset(Str1("c")), RawDataset(Str1("d"))>>

FourFqns == {fqn(DatasetCreate(FourInputs[i])) : i \in DOMAIN FourInputs}

\* The catalog after the four POST /datasets of the test, in that order
InitLineage ==
    /\ datasets = {DatasetRow(i, DatasetCreate(FourInputs[i])) : i \in DOMAIN FourInputs}
    /\ dataset_columns = EmptyBag
    /\ lineage = EmptyBag
    /\ next_dataset_id = Len(FourInputs) + 1
    /\ response = Resp("create_dataset", 201, "none", "created",
                       <<fqn(DatasetCreate(FourInputs[Len(FourInputs)]))>>)
    /\ sessions = NoSessions
    /\ graph_call = NoCall
    /\ client = Idle

\* The client adds an edge; when that succeeded it keeps the edge table as
\* it was before (GET /lineage, get_all_lineage_edges).
ClientAdd ==
    /\ \E u, d \in FourFqns :
        /\ add_lineage(u, d)
        /\ client' = IF response'.status = 201
                      THEN [pc |-> "added", names |-> <<u, d>>, before |-> lineage]
                      ELSE Idle
    /\ UNCHANGED <<sessions, graph_call>>

\* The client removes an edge; "removed" when it is the edge it has just
\* added, with no request in between.
ClientRemove ==
    /\ \E u, d \in FourFqns :
        /\ remove_lineage(u, d)
        /\ client' = IF client.pc = "added" /\ client.names = <<u, d>>
                         /\ response'.status = 204
                      THEN [client EXCEPT !.pc = "removed"]
                      ELSE Idle
    /\ UNCHANGED <<sessions, graph_call>>

NextLineage == ClientAdd \/ ClientRemove

SpecLineage == InitLineage /\ [][NextLineage]_vars

(***************************************************************************)
(* Direct calls of app/utils/graph.py (as tests/test_graph.py makes them)  *)
(***************************************************************************)
Nodes == 1..MaxNode

\* Every Dict[int, Set[int]] over the nodes: any set of keys, any value sets
\* (empty sets, self-loops and cycles included).
AdjacencyMaps == UNION {[K -> SUBSET Nodes] : K \in SUBSET Nodes}

\* Every list of at most MaxEdges edges over the nodes, repeats included
EdgeLists ==
    UNION {[1..n -> {LineageRow(u, d) : u \in Nodes, d \in Nodes}] : n \in 0..MaxEdges}

\* The arguments of a call are drawn here; the Call actions make the call.
InitGraph ==
    /\ datasets = {}
    /\ dataset_columns = EmptyBag
    /\ lineage = EmptyBag
    /\ next_dataset_id = 1
    /\ response = Resp("init", 0, "none", "init", <<>>)
    /\ sessions = NoSessions
    /\ graph_call \in [fn : {"pending"}, upstream_id : Nodes, downstream_id : Nodes,
                       adjacency : AdjacencyMaps]
                    \cup [fn : {"pending_build"}, edges : EdgeLists]
    /\ client = Idle

CallWouldCreateCycle ==
    /\ graph_call.fn = "pending"
    /\ graph_call' = [fn            |-> "would_create_cycle",
                      upstream_id   |-> graph_call.upstream_id,
                      downstream_id |-> graph_call.downstream_id,
                      adjacency     |-> graph_call.adjacency,
                      result        |-> would_create_cycle(graph_call.upstream_id,
                                                           graph_call.downstream_id,
                                                           graph_call.adjacency)]
    /\ UNCHANGED <<store, response, sessions, client>>

CallBuildAdjacency ==
    /\ graph_call.fn = "pending_build"
    /\ graph_call' = [fn     |-> "build_adjacency",
                      edges  |-> graph_call.edges,
                      result |-> build_adjacency(graph_call.edges)]
    /\ UNCHANGED <<store, response, sessions, client>>

NextGraph == CallWouldCreateCycle \/ CallBuildAdjacency

SpecGraph == InitGraph /\ [][NextGraph]_vars

\* Calls of would_create_cycle on any adjacency map, cyclic ones included,
\* for an upstream id that may be no node of the map at all (a dataset without
\* edges; 0 stands for it).
UpstreamIds == Nodes \cup {0}

InitDfs ==
    /\ datasets = {}
    /\ dataset_columns = EmptyBag
    /\ lineage = EmptyBag
    /\ next_dataset_id = 1
    /\ response = Resp("init", 0, "none", "init", <<>>)
    /\ sessions = NoSessions
    /\ graph_call \in [fn : {"pending"}, upstream_id : UpstreamIds,
                       downstream_id : Nodes, adjacency : AdjacencyMaps]
    /\ client = Idle

CallDfs ==
    /\ graph_call.fn = "pending"
    /\ LET run == would_create_cycle_expand(graph_call.upstream_id,
                                            graph_call.downstream_id,
                                            graph_call.adjacency)
       IN graph_call' = [fn            |-> "would_create_cycle",
                         upstream_id   |-> graph_call.upstream_id,
                         downstream_id |-> graph_call.downstream_id,
                         adjacency     |-> graph_call.adjacency,
                         result        |-> run.result,
                         expanded      |-> run.expanded]
    /\ UNCHANGED <<store, response, sessions, client>>

NextDfs == CallDfs

SpecDfs == InitDfs /\ [][NextDfs]_vars

(***************************************************************************)
(* Concurrent POST /lineage requests.  Each request runs add_lineage on a  *)
(* database session of its own (get_db); nothing in the service or the     *)
(* router takes a lock, so the requests interleave at their database       *)
(* statements.  A statement reads the committed tables as they are when it *)
(* runs.                                                                   *)
(***************************************************************************)
SessionIds == {"s1", "s2"}

ThreeInputs == <<RawDataset(Str1("a")), RawDataset(Str1("b")), RawDataset(Str1("c"))>>

ConcurrentFqns == {fqn(DatasetCreate(ThreeInputs[i])) : i \in DOMAIN ThreeInputs}

\* A fresh session; `response` is the answer once its request has ended
NewSession == [pc             |-> "idle",
               upstream_fqn   |-> <<>>,
               downstream_fqn |-> <<>>,
               upstream       |-> None,
               downstream     |-> None,
               response       |-> Resp("init", 0, "none", "init", <<>>)]

\* The request ends (return or raise); get_db closes the session
Answer(resp) == [NewSession EXCEPT !.response = resp]

InitConcurrent ==
    /\ datasets = {DatasetRow(i, DatasetCreate(ThreeInputs[i])) : i \in DOMAIN ThreeInputs}
    /\ dataset_columns = EmptyBag
    /\ lineage = EmptyBag
    /\ next_dataset_id = Len(ThreeInputs) + 1
    /\ response = Resp("create_dataset", 201, "none", "created",
                       <<fqn(DatasetCreate(ThreeInputs[Len(ThreeInputs)]))>>)
    /\ sessions = [s \in SessionIds |-> NewSession]
    /\ graph_call = NoCall
    /\ client = Idle

\* The request arrives: body validation, then the route function is entered
begin_add(s, upstream_fqn, downstream_fqn) ==
    IF ~LineageCreateValid(upstream_fqn, downstream_fqn) THEN
        sessions' = [sessions EXCEPT ![s] =
            Answer(ValidationError("add_lineage", <<upstream_fqn, downstream_fqn>>))]
    ELSE
        sessions' = [sessions EXCEPT ![s] =
            [NewSession EXCEPT !.pc = "load_upstream",
                               !.upstream_fqn = upstream_fqn,
                               !.downstream_fqn = downstream_fqn]]

\* upstream = get_dataset_by_fqn(db, upstream_fqn)
load_upstream(s) ==
    LET upstream == get_dataset_by_fqn(datasets, sessions[s].upstream_fqn)
    IN  IF upstream = None THEN
            sessions' = [sessions EXCEPT ![s] =
                Answer(Resp("add_lineage", 404, "NotFoundError", "upstream not found",
                            <<sessions[s].upstream_fqn>>))]
        ELSE
            sessions' = [sessions EXCEPT ![s].pc = "load_downstream",
                                         ![s].upstream = upstream]

\* downstream = get_dataset_by_fqn(db, downstream_fqn)
load_downstream(s) ==
    LET downstream == get_dataset_by_fqn(datasets, sessions[s].downstream_fqn)
    IN  IF downstream = None THEN
            sessions' = [sessions EXCEPT ![s] =
                Answer(Resp("add_lineage", 404, "NotFoundError", "downstream not found",
                            <<sessions[s].downstream_fqn>>))]
        ELSE
            sessions' = [sessions EXCEPT ![s].pc = "check_existing",
                                         ![s].downstream = downstream]

\* existing = db.query(Lineage).filter(...).first()
check_existing(s) ==
    LET names == <<sessions[s].upstream_fqn, sessions[s].downstream_fqn>>
    IN  IF get_edge(lineage, sessions[s].upstream[1].id,
                    sessions[s].downstream[1].id) # None THEN
            sessions' = [sessions EXCEPT ![s] =
                Answer(Resp("add_lineage", 409, "ConflictError", "already exists", names))]
        ELSE
            sessions' = [sessions EXCEPT ![s].pc = "check_cycle"]

\* adjacency = _load_full_adjacency(db); if would_create_cycle(...): raise
check_cycle(s) ==
    LET names == <<sessions[s].upstream_fqn, sessions[s].downstream_fqn>>
    IN  IF would_create_cycle(sessions[s].upstream[1].id, sessions[s].downstream[1].id,
                              _load_full_adjacency(lineage)) THEN
            sessions' = [sessions EXCEPT ![s] =
                Answer(Resp("add_lineage", 422, "CycleError", "would create a cycle",
                            names))]
        ELSE
            sessions' = [sessions EXCEPT ![s].pc = "commit"]

\* Mutant: the commit validates the edge against the edge set as it is now.
commit_edge_rechecked(edges, rows, u, d) ==
    /\ uq_lineage_edge(insert_edge(edges, u, d))
    /\ fk_lineage_datasets(insert_edge(edges, u, d), rows)
    /\ ~would_create_cycle(u, d, _load_full_adjacency(edges))

\* Mutant: the lineage table has no unique constraint on the pair.
commit_edge_unconstrained(edges, rows, u, d) ==
    fk_lineage_datasets(insert_edge(edges, u, d), rows)

\* Whether db.add(edge); db.commit() goes through: the INSERT is checked
\* against the table constraints and against nothing else.
commit_edge(edges, rows, u, d) ==
    /\ uq_lineage_edge(insert_edge(edges, u, d))
    /\ fk_lineage_datasets(insert_edge(edges, u, d), rows)

\* db.add(edge); db.commit(); db.refresh(edge); return edge
commit(s) ==
    LET u == sessions[s].upstream[1].id
        d == sessions[s].downstream[1].id
        names == <<sessions[s].upstream_fqn, sessions[s].downstream_fqn>>
    IN  IF commit_edge(lineage, datasets, u, d) THEN
            /\ lineage' = insert_edge(lineage, u, d)
            /\ sessions' = [sessions EXCEPT ![s] =
                   Answer(Resp("add_lineage", 201, "none", "created", names))]
        ELSE
            /\ lineage' = lineage
            /\ sessions' = [sessions EXCEPT ![s] =
                   Answer(IntegrityError("add_lineage", names))]

BeginAdd ==
    /\ \E s \in SessionIds, u \in ConcurrentFqns, d \in ConcurrentFqns :
        /\ sessions[s].pc = "idle"
        /\ begin_add(s, u, d)
    /\ UNCHANGED <<store, response, graph_call, client>>

LoadUpstream ==
    /\ \E s \in SessionIds :
        /\ sessions[s].pc = "load_upstream"
        /\ load_upstream(s)
    /\ UNCHANGED <<store, response, graph_call, client>>

LoadDownstream ==
    /\ \E s \in SessionIds :
        /\ sessions[s].pc = "load_downstream"
        /\ load_downstream(s)
    /\ UNCHANGED <<store, response, graph_call, client>>

CheckExisting ==
    /\ \E s \in SessionIds :
        /\ sessions[s].pc = "check_existing"
        /\ check_existing(s)
    /\ UNCHANGED <<store, response, graph_call, client>>

CheckCycle ==
    /\ \E s \in SessionIds :
        /\ sessions[s].pc = "check_cycle"
        /\ check_cycle(s)
    /\ UNCHANGED <<store, response, graph_call, client>>

Commit ==
    /\ \E s \in SessionIds :
        /\ sessions[s].pc = "commit"
        /\ commit(s)
    /\ UNCHANGED <<datasets, dataset_columns, next_dataset_id, response, graph_call,
                   client>>

NextConcurrent ==
    \/ BeginAdd
    \/ LoadUpstream
    \/ LoadDownstream
    \/ CheckExisting
    \/ CheckCycle
    \/ Commit

SpecConcurrent == InitConcurrent /\ [][NextConcurrent]_vars

(***************************************************************************)
(* Concurrent POST /datasets next to concurrent POST /lineage: each        *)
(* request runs create_dataset on a session of its own and interleaves     *)
(* with the others between its lookup and its commit.                      *)
(***************************************************************************)
\* Two bodies for one FQN: the third dataset, and the same components in
\* upper case with a blank
RaceCreateInputs == {ThreeInputs[3], RawDataset(<<" ", "C">>)}

\* The two datasets the catalog holds already
RaceFqns == {fqn(DatasetCreate(ThreeInputs[i])) : i \in 1..2}

InitRace ==
    /\ datasets = {DatasetRow(i, DatasetCreate(ThreeInputs[i])) : i \in 1..2}
    /\ dataset_columns = EmptyBag
    /\ lineage = EmptyBag
    /\ next_dataset_id = 3
    /\ response = Resp("create_dataset", 201, "none", "created",
                       <<fqn(DatasetCreate(ThreeInputs[2]))>>)
    /\ sessions = [s \in SessionIds |-> NewSession]
    /\ graph_call = NoCall
    /\ client = Idle

\* The request arrives: body validation, then the route function is entered
begin_create(s, raw) ==
    LET payload == DatasetCreate(raw)
    IN  IF ~DatasetCreateValid(payload) THEN
            sessions' = [sessions EXCEPT ![s] =
                Answer(ValidationError("create_dataset", <<>>))]
        ELSE
            sessions' = [sessions EXCEPT ![s] =
                [pc |-> "check_fqn", payload |-> payload,
                 response |-> NewSession.response]]

\* fqn = payload.fqn; if get_dataset_by_fqn(db, fqn): raise ConflictError
check_fqn(s) ==
    LET f == fqn(sessions[s].payload)
    IN  IF get_dataset_by_fqn(datasets, f) # None THEN
            sessions' = [sessions EXCEPT ![s] =
                Answer(Resp("create_dataset", 409, "ConflictError",
                            "already exists", <<f>>))]
        ELSE
            sessions' = [sessions EXCEPT ![s].pc = "commit_create"]

\* Whether db.add(dataset); db.commit() goes through: the INSERTs are checked
\* against the table constraints as the tables are at commit.
commit_dataset(rows, cols, dataset, new_cols) ==
    /\ uq_dataset_fqn(rows \cup {dataset})
    /\ uq_column_dataset_name(cols (+) new_cols)

\* db.add(dataset); db.commit(); db.refresh(dataset); return dataset
commit_create(s) ==
    LET payload == sessions[s].payload
        f == fqn(payload)
        dataset == DatasetRow(next_dataset_id, payload)
        new_cols == ColumnRows(next_dataset_id, payload.columns)
    IN  IF commit_dataset(datasets, dataset_columns, dataset, new_cols) THEN
            /\ next_dataset_id <= MaxDatasetId
            /\ datasets' = datasets \cup {dataset}
            /\ dataset_columns' = dataset_columns (+) new_cols
            /\ next_dataset_id' = next_dataset_id + 1
            /\ sessions' = [sessions EXCEPT ![s] =
                   Answer(Resp("create_dataset", 201, "none", "created", <<f>>))]
        ELSE
            /\ UNCHANGED <<datasets, dataset_columns, next_dataset_id>>
            /\ sessions' = [sessions EXCEPT ![s] =
                   Answer(IntegrityError("create_dataset", <<f>>))]

BeginCreate ==
    /\ \E s \in SessionIds, raw \in RaceCreateInputs :
        /\ sessions[s].pc = "idle"
        /\ begin_create(s, raw)
    /\ UNCHANGED <<store, response, graph_call, client>>

CheckFqn ==
    /\ \E s \in SessionIds :
        /\ sessions[s].pc = "check_fqn"
        /\ check_fqn(s)
    /\ UNCHANGED <<store, response, graph_call, client>>

CommitCreate ==
    /\ \E s \in SessionIds :
        /\ sessions[s].pc = "commit_create"
        /\ commit_create(s)
    /\ UNCHANGED <<lineage, response, graph_call, client>>

RaceBeginAdd ==
    /\ \E s \in SessionIds, u \in RaceFqns, d \in RaceFqns :
        /\ sessions[s].pc = "idle"
        /\ begin_add(s, u, d)
    /\ UNCHANGED <<store, response, graph_call, client>>

NextRace ==
    \/ BeginCreate
    \/ CheckFqn
    \/ CommitCreate
    \/ RaceBeginAdd
    \/ LoadUpstream
    \/ LoadDownstream
    \/ CheckExisting
    \/ CheckCycle
    \/ Commit

SpecRace == InitRace /\ [][NextRace]_vars

(***************************************************************************)
(* Read paths: relationship loading and the response schemas               *)
(***************************************************************************)
\* The orders in which the store may return a list of rows: no query of the
\* read paths has an ORDER BY.
RowOrders(rows) ==
    {[i \in DOMAIN rows |-> rows[p[i]]] : p \in Permutations(DOMAIN rows)}

\* The rows of a set of datasets as a list (by id)
RECURSIVE DatasetRows(_)
DatasetRows(S) ==
    IF S = {} THEN <<>>
    ELSE LET m == CHOOSE x \in S : \A y \in S : x.id <= y.id
         IN <<m>> \o DatasetRows(S \ {m})

\* edge.upstream / edge.downstream: the dataset the foreign key points at
DatasetById(rows, id) == CHOOSE ds \in rows : ds.id = id

\* Mutant: the relationship is keyed on the wrong column.
upstream_edges_swapped(edges, dataset) ==
    BagRows(BagWithout(edges, LAMBDA e : e.upstream_id # dataset.id))

\* Dataset.upstream_edges: foreign_keys="Lineage.downstream_id"
upstream_edges(edges, dataset) ==
    BagRows(BagWithout(edges, LAMBDA e : e.downstream_id # dataset.id))

\* Dataset.downstream_edges: foreign_keys="Lineage.upstream_id"
downstream_edges(edges, dataset) ==
    BagRows(BagWithout(edges, LAMBDA e : e.upstream_id # dataset.id))

\* Dataset.columns; the response lists them in the order the store returns
\* them, kept here as the bag of rows.
columns(cols, dataset) ==
    BagWithout(cols, LAMBDA c : c.dataset_id # dataset.id)

LineageNodeResponse(dataset) ==
    [fqn           |-> dataset.fqn,
     source_system |-> dataset.source_system,
     description   |-> dataset.description]

DatasetResponse(dataset, cols) ==
    [fqn             |-> dataset.fqn,
     connection_name |-> dataset.connection_name,
     database_name   |-> dataset.database_name,
     schema_name     |-> dataset.schema_name,
     table_name      |-> dataset.table_name,
     source_system   |-> dataset.source_system,
     description     |-> dataset.description,
     columns         |-> columns(cols, dataset)]

\* [LineageNodeResponse.model_validate(edge.upstream) for edge in edges]
upstream_nodes(rows, edges) ==
    [i \in DOMAIN edges |-> LineageNodeResponse(DatasetById(rows, edges[i].upstream_id))]

\* [LineageNodeResponse.model_validate(edge.downstream) for edge in edges]
downstream_nodes(rows, edges) ==
    [i \in DOMAIN edges |-> LineageNodeResponse(DatasetById(rows, edges[i].downstream_id))]

\* lineage_service.get_dataset_lineage behind GET /lineage/{fqn}
get_dataset_lineage(f) ==
    LET found == get_dataset_by_fqn(datasets, f)
        dataset == found[1]
    IN  IF found = None THEN
            /\ response' = Resp("get_dataset_lineage", 404, "NotFoundError",
                                "not found", <<f>>)
            /\ UNCHANGED store
        ELSE
            /\ \E ups \in RowOrders(upstream_edges(lineage, dataset)),
                  downs \in RowOrders(downstream_edges(lineage, dataset)) :
                response' =
                    [op      |-> "get_dataset_lineage", status |-> 200,
                     error   |-> "none", message |-> "ok", names |-> <<f>>,
                     dataset |-> DatasetResponse(dataset, dataset_columns),
                     upstream_datasets   |-> upstream_nodes(datasets, ups),
                     downstream_datasets |-> downstream_nodes(datasets, downs)]
            /\ UNCHANGED store

(***************************************************************************)
(* app/services/search_service.py behind app/routers/search.py             *)
(***************************************************************************)
\* Code points of the model's alphabet (Python compares str by code point)
Ord(ch) ==
    CASE ch = " " -> 32 [] ch = "%" -> 37 [] ch = "." -> 46
      [] ch = "A" -> 65 [] ch = "B" -> 66 [] ch = "C" -> 67 [] ch = "I" -> 73
      [] ch = "S" -> 83 [] ch = "_" -> 95
      [] ch = "a" -> 97 [] ch = "b" -> 98 [] ch = "c" -> 99 [] ch = "d" -> 100
      [] ch = "i" -> 105 [] ch = "s" -> 115 [] ch = "x" -> 120

\* a < b on str
RECURSIVE str_lt(_, _)
str_lt(a, b) ==
    IF b = <<>> THEN FALSE
    ELSE IF a = <<>> THEN TRUE
    ELSE IF Head(a) = Head(b) THEN str_lt(Tail(a), Tail(b))
    ELSE Ord(Head(a)) < Ord(Head(b))

\* SQL LIKE: % stands for any run of characters, _ for any one character
RECURSIVE like(_, _)
like(value, pattern) ==
    IF pattern = <<>> THEN value = <<>>
    ELSE IF Head(pattern) = "%" THEN
        \/ like(value, Tail(pattern))
        \/ value # <<>> /\ like(Tail(value), pattern)
    ELSE IF value = <<>> THEN FALSE
    ELSE /\ Head(pattern) = "_" \/ Head(pattern) = Head(value)
         /\ like(Tail(value), Tail(pattern))

\* Column.ilike(pattern): lower(column) LIKE lower(pattern)
ilike(value, pattern) == like(lower(value), lower(pattern))

_PRIORITY(match_type) ==
    CASE match_type = "table_name" -> 1
      [] match_type = "column_name" -> 2
      [] match_type = "schema_name" -> 3
      [] match_type = "database_name" -> 4

\* like = f"%{term}%"
like_pattern(term) == <<"%">> \o term \o <<"%">>

\* select(Dataset).where(Dataset.table_name.ilike(like)), as a set of rows
table_matches(rows, pattern) == {ds \in rows : ilike(ds.table_name, pattern)}

\* select(DatasetColumn.dataset_id).where(DatasetColumn.name.ilike(like)).distinct()
col_dataset_ids(cols, pattern) ==
    {c.dataset_id : c \in {x \in BagToSet(cols) : ilike(x.name, pattern)}}

\* select(Dataset).where(Dataset.id.in_(col_dataset_ids))
col_datasets(rows, cols, pattern) ==
    {ds \in rows : ds.id \in col_dataset_ids(cols, pattern)}

\* The values col_dataset_map can hold: for each dataset one of its matching
\* column names, the first in the order the store returned the columns
col_dataset_maps(cols, pattern) ==
    LET ids == col_dataset_ids(cols, pattern)
        names(id) == {c.name : c \in {x \in BagToSet(cols) :
                                        x.dataset_id = id /\ ilike(x.name, pattern)}}
    IN {f \in [ids -> UNION {names(id) : id \in ids}] : \A id \in ids : f[id] \in names(id)}

\* select(Dataset).where(Dataset.schema_name.ilike(like))
schema_matches(rows, pattern) == {ds \in rows : ilike(ds.schema_name, pattern)}

\* select(Dataset).where(Dataset.database_name.ilike(like))
db_matches(rows, pattern) == {ds \in rows : ilike(ds.database_name, pattern)}

\* The orders in which each dataset's edge relationships may load
edge_orders(rows, edges, side) ==
    LET of(ds) == IF side = "upstream" THEN upstream_edges(edges, ds)
                  ELSE downstream_edges(edges, ds)
    IN {f \in [rows -> UNION {RowOrders(of(ds)) : ds \in rows}] :
            \A ds \in rows : f[ds] \in RowOrders(of(ds))}

\* The value that is reported as matched_on
matched_on(dataset, match_type, col_dataset_map, term) ==
    CASE match_type = "table_name" -> dataset.table_name
      [] match_type = "column_name" ->
            IF dataset.id \in DOMAIN col_dataset_map
            THEN col_dataset_map[dataset.id] ELSE term
      [] match_type = "schema_name" -> dataset.schema_name
      [] match_type = "database_name" -> dataset.database_name

\* Mutant: a dataset seen before is appended again.
_add_again(acc, dataset, match_type, ctx) ==
    [seen_fqns |-> acc.seen_fqns \cup {dataset.fqn},
     results   |-> Append(acc.results,
        [dataset     |-> DatasetResponse(dataset, ctx.cols),
         match_type  |-> match_type,
         matched_on  |-> matched_on(dataset, match_type, ctx.col_dataset_map, ctx.term),
         priority    |-> _PRIORITY(match_type),
         upstream_datasets   |-> upstream_nodes(ctx.rows, ctx.ups[dataset]),
         downstream_datasets |-> downstream_nodes(ctx.rows, ctx.downs[dataset])])]

\* search_datasets._add on the closure variables seen_fqns and results; ctx
\* holds what the function reads besides: the loaded rows and relationships
_add(acc, dataset, match_type, ctx) ==
    IF dataset.fqn \in acc.seen_fqns THEN acc
    ELSE
    [seen_fqns |-> acc.seen_fqns \cup {dataset.fqn},
     results   |-> Append(acc.results,
        [dataset     |-> DatasetResponse(dataset, ctx.cols),
         match_type  |-> match_type,
         matched_on  |-> matched_on(dataset, match_type, ctx.col_dataset_map, ctx.term),
         priority    |-> _PRIORITY(match_type),
         upstream_datasets   |-> upstream_nodes(ctx.rows, ctx.ups[dataset]),
         downstream_datasets |-> downstream_nodes(ctx.rows, ctx.downs[dataset])])]

\* for ds in <tier>: _add(ds, <match_type>, ...)
RECURSIVE add_each(_, _, _, _)
add_each(acc, tier, match_type, ctx) ==
    IF tier = <<>> THEN acc
    ELSE add_each(_add(acc, Head(tier), match_type, ctx), Tail(tier), match_type, ctx)

\* key=lambda r: (r.priority, r.dataset.fqn), compared as tuples
key_lt(a, b) ==
    \/ a.priority < b.priority
    \/ a.priority = b.priority /\ str_lt(a.dataset.fqn, b.dataset.fqn)

\* One step of a stable sort: x goes behind every entry whose key is not
\* greater than its own
RECURSIVE insert_sorted(_, _)
insert_sorted(sorted, x) ==
    IF sorted = <<>> THEN <<x>>
    ELSE IF key_lt(x, Head(sorted)) THEN <<x>> \o sorted
    ELSE <<Head(sorted)>> \o insert_sorted(Tail(sorted), x)

\* Mutant: the list is left in insertion order.
sort_skipped(results) == results

\* results.sort(key=...)
RECURSIVE sort(_)
sort(results) ==
    IF results = <<>> THEN <<>>
    ELSE insert_sorted(sort(SubSeq(results, 1, Len(results) - 1)),
                       results[Len(results)])

\* Mutant: the slice is taken before the sort.
slice_unsorted(results, limit) ==
    LET n == Len(results)
        cut == IF limit >= 0 THEN (IF limit < n THEN limit ELSE n)
               ELSE (IF n + limit > 0 THEN n + limit ELSE 0)
    IN IF cut < n THEN SubSeq(results, n - cut + 1, n) ELSE results

\* results[:limit]
slice(results, limit) ==
    LET n == Len(results)
        cut == IF limit >= 0 THEN (IF limit < n THEN limit ELSE n)
               ELSE (IF n + limit > 0 THEN n + limit ELSE 0)
    IN SubSeq(results, 1, cut)

\* Mutant: only blank-free emptiness is tested.
is_blank_empty_only(query) == query = <<>>

\* not query or not query.strip()
is_blank(query) == query = <<>> \/ strip(query) = <<>>

SearchResponse(request, limit, query, total, results) ==
    [op |-> "search_datasets", status |-> 200, error |-> "none", message |-> "ok",
     names |-> <<request>>, limit |-> limit,
     query |-> query, total |-> total, results |-> results]

\* search_service.search_datasets; the four tier lists, col_dataset_map and
\* the relationship lists come in the order the store returns them
search_datasets(query, limit) ==
    /\ IF is_blank(query) THEN
            response' = SearchResponse(query, limit, query, 0, <<>>)
       ELSE
        LET term == strip(query)
            pattern == like_pattern(term)
        IN \E t1 \in RowOrders(DatasetRows(table_matches(datasets, pattern))),
              t2 \in RowOrders(DatasetRows(col_datasets(datasets, dataset_columns,
                                                        pattern))),
              t3 \in RowOrders(DatasetRows(schema_matches(datasets, pattern))),
              t4 \in RowOrders(DatasetRows(db_matches(datasets, pattern))),
              col_dataset_map \in col_dataset_maps(dataset_columns, pattern),
              ups \in edge_orders(datasets, lineage, "upstream"),
              downs \in edge_orders(datasets, lineage, "downstream") :
            LET ctx == [rows |-> datasets, cols |-> dataset_columns, term |-> term,
                        col_dataset_map |-> col_dataset_map,
                        ups |-> ups, downs |-> downs]
                acc0 == [seen_fqns |-> {}, results |-> <<>>]
                acc1 == add_each(acc0, t1, "table_name", ctx)
                acc2 == add_each(acc1, t2, "column_name", ctx)
                acc3 == add_each(acc2, t3, "schema_name", ctx)
                acc4 == add_each(acc3, t4, "database_name", ctx)
                results == sort(acc4.results)
            IN response' = SearchResponse(query, limit, term, Len(results),
                                          slice(results, limit))
    /\ UNCHANGED store

(***************************************************************************)
(* A catalog of datasets with columns, built, linked, queried and searched *)
(* by sequential requests.  The names are chosen so that a query can match *)
(* a dataset through its table, a column, its schema, its database, or     *)
(* through its connection name alone.                                      *)
(***************************************************************************)
Col(name) == [name |-> name, data_type |-> <<"i">>, description |-> None]

CatalogDataset(connection, database, schema, table, cols) ==
    [connection_name |-> connection, database_name |-> database,
     schema_name |-> schema, table_name |-> table,
     source_system |-> "Snowflake", description |-> None, columns |-> cols]

RawInput   == CatalogDataset(<<"s">>, <<"d">>, <<"x">>, <<"a", "b">>,
                             <<Col(<<" ", "_", "b">>), Col(<<"c">>)>>)
CleanInput == CatalogDataset(<<"a">>, <<"d">>, <<"x">>, <<"c">>, <<Col(<<"A">>)>>)
AggInput   == CatalogDataset(<<"a">>, <<"d", "a">>, <<"x", "a">>, <<"b">>, <<>>)
OtherInput == CatalogDataset(<<"a">>, <<"d", "a">>, <<"x">>, <<"c", "b">>, <<>>)

\* RawInput again, in other letter case and with surrounding blanks
RawVariantInput == CatalogDataset(<<"S">>, <<" ", "d">>, <<"x", " ">>,
                                  <<" ", "A", "B", " ">>, <<>>)

CatalogInputs == {RawInput, CleanInput, AggInput, OtherInput, RawVariantInput}

RawFqn   == fqn(DatasetCreate(RawInput))
CleanFqn == fqn(DatasetCreate(CleanInput))
AggFqn   == fqn(DatasetCreate(AggInput))
OtherFqn == fqn(DatasetCreate(OtherInput))

CatalogFqns == {fqn(DatasetCreate(raw)) : raw \in CatalogInputs}

\* The edges requested: the chain raw -> clean -> agg, its shortcut, and the
\* edge back
CatalogPairs == {<<RawFqn, CleanFqn>>, <<CleanFqn, AggFqn>>, <<RawFqn, AggFqn>>,
                 <<AggFqn, RawFqn>>}

CatalogCreate ==
    /\ \E raw \in CatalogInputs : create_dataset(raw)
    /\ UNCHANGED <<sessions, graph_call, client>>

CatalogDelete ==
    /\ \E f \in CatalogFqns : delete_dataset(f)
    /\ UNCHANGED <<sessions, graph_call, client>>

CatalogAddLineage ==
    /\ \E pair \in CatalogPairs : post_lineage(pair[1], pair[2])
    /\ UNCHANGED <<sessions, graph_call, client>>

CatalogGetLineage ==
    /\ \E f \in CatalogFqns : get_dataset_lineage(f)
    /\ UNCHANGED <<sessions, graph_call, client>>

\* def search_datasets(db, query, limit: int = 50)
DefaultLimit == 50

\* Queries: a padded upper-case letter, a letter, a LIKE wildcard, a name that
\* occurs as a connection name only, the empty and a blank query
SearchQueries == {<<" ", "A">>, <<"b">>, <<"_", "b">>, <<"s">>, <<>>, <<" ">>}

\* limit (Query(ge=1)): one that cuts a list of two, one that cuts a list of
\* three, and the default
SearchLimits == {1, 2, DefaultLimit}

CatalogSearch ==
    /\ \E query \in SearchQueries, limit \in SearchLimits :
            search_datasets(query, limit)
    /\ UNCHANGED <<sessions, graph_call, client>>

NextCatalog ==
    \/ CatalogCreate
    \/ CatalogDelete
    \/ CatalogAddLineage
    \/ CatalogGetLineage

SpecCatalog == Init /\ [][NextCatalog]_vars

\* Search on a populated catalog (the `populated` fixture of
\* tests/test_search.py): the four datasets are created first, then edges are
\* added, datasets deleted, and the catalog is queried and searched.
PopulatedInputs == <<RawInput, CleanInput, AggInput, OtherInput>>

RECURSIVE PopulatedColumns(_)
PopulatedColumns(n) ==
    IF n = 0 THEN EmptyBag
    ELSE PopulatedColumns(n - 1)
            (+) ColumnRows(n, DatasetCreate(PopulatedInputs[n]).columns)

InitSearch ==
    /\ datasets = {DatasetRow(i, DatasetCreate(PopulatedInputs[i])) :
                        i \in DOMAIN PopulatedInputs}
    /\ dataset_columns = PopulatedColumns(Len(PopulatedInputs))
    /\ lineage = EmptyBag
    /\ next_dataset_id = Len(PopulatedInputs) + 1
    /\ response = Resp("create_dataset", 201, "none", "created",
                       <<fqn(DatasetCreate(PopulatedInputs[Len(PopulatedInputs)]))>>)
    /\ sessions = NoSessions
    /\ graph_call = NoCall
    /\ client = Idle

NextSearch ==
    \/ CatalogDelete
    \/ CatalogAddLineage
    \/ CatalogGetLineage
    \/ CatalogSearch

SpecSearch == InitSearch /\ [][NextSearch]_vars

(***************************************************************************)
(* Datasets whose column lists and scalar fields are replaced by PUT       *)
(* requests, next to creates, deletes and lineage requests.  One of the    *)
(* column lists names a column twice once the names are trimmed.           *)
(***************************************************************************)
OneColumnInput ==
    CatalogDataset(<<"s">>, <<"d">>, <<"x">>, <<"a">>, <<Col(<<"a">>)>>)
TwoColumnInput ==
    CatalogDataset(<<"s">>, <<"d">>, <<"x">>, <<"b">>,
                   <<Col(<<" ", "b">>), Col(<<"c">>)>>)
RepeatedColumnInput ==
    CatalogDataset(<<"s">>, <<"d">>, <<"x">>, <<"c">>,
                   <<Col(<<"c">>), Col(<<"c", " ">>)>>)

ColumnsInputs == {OneColumnInput, TwoColumnInput, RepeatedColumnInput}

ColumnsFqns == {fqn(DatasetCreate(raw)) : raw \in ColumnsInputs}

UpdateBody(source_system, description, cols) ==
    [source_system |-> source_system, description |-> description,
     columns |-> cols]

\* PUT bodies: the tag alone, the description alone, an empty column list, a
\* new column list, and all three fields with a column list that repeats a
\* name
TagBody         == UpdateBody(Some("MySQL"), None, None)
DescriptionBody == UpdateBody(None, Some(<<"t">>), None)
NoColumnsBody   == UpdateBody(None, None, Some(<<>>))
NewColumnsBody  == UpdateBody(None, None, Some(TwoColumnInput.columns))
RepeatedBody    == UpdateBody(Some("MySQL"), Some(<<"t">>),
                              Some(RepeatedColumnInput.columns))

UpdateBodies ==
    {TagBody, DescriptionBody, NoColumnsBody, NewColumnsBody, RepeatedBody}

ColumnsCreate ==
    /\ \E raw \in ColumnsInputs : create_dataset(raw)
    /\ UNCHANGED <<sessions, graph_call, client>>

ColumnsUpdate ==
    /\ \E f \in ColumnsFqns, raw \in UpdateBodies : update_dataset(f, raw)
    /\ UNCHANGED <<sessions, graph_call, client>>

ColumnsDelete ==
    /\ \E f \in ColumnsFqns : delete_dataset(f)
    /\ UNCHANGED <<sessions, graph_call, client>>

ColumnsAddLineage ==
    /\ \E u, d \in ColumnsFqns : add_lineage(u, d)
    /\ UNCHANGED <<sessions, graph_call, client>>

ColumnsRemoveLineage ==
    /\ \E u, d \in ColumnsFqns : remove_lineage(u, d)
    /\ UNCHANGED <<sessions, graph_call, client>>

NextColumns ==
    \/ ColumnsCreate
    \/ ColumnsUpdate
    \/ ColumnsDelete
    \/ ColumnsAddLineage
    \/ ColumnsRemoveLineage

SpecColumns == Init /\ [][NextColumns]_vars

\* PUT requests on a catalog that holds the two datasets already (as after
\* the _create_dataset calls of tests/test_datasets.py), with lineage
\* requests and deletes in between.
UpdatedInputs == <<OneColumnInput, TwoColumnInput>>

InitUpdate ==
    /\ datasets = {DatasetRow(i, DatasetCreate(UpdatedInputs[i])) :
                        i \in DOMAIN UpdatedInputs}
    /\ dataset_columns =
            ColumnRows(1, DatasetCreate(UpdatedInputs[1]).columns)
                (+) ColumnRows(2, DatasetCreate(UpdatedInputs[2]).columns)
    /\ lineage = EmptyBag
    /\ next_dataset_id = Len(UpdatedInputs) + 1
    /\ response = Resp("create_dataset", 201, "none", "created",
                       <<fqn(DatasetCreate(UpdatedInputs[Len(UpdatedInputs)]))>>)
    /\ sessions = NoSessions
    /\ graph_call = NoCall
    /\ client = Idle

NextUpdate ==
    \/ ColumnsUpdate
    \/ ColumnsDelete
    \/ ColumnsAddLineage
    \/ ColumnsRemoveLineage

SpecUpdate == InitUpdate /\ [][NextUpdate]_vars

(***************************************************************************)
(* Creates whose components contain dots (nothing in DatasetCreate forbids *)
(* them), next to components that differ only in where one ends and the    *)
(* next begins.                                                            *)
(***************************************************************************)
DottedConnectionInput ==
    CatalogDataset(<<"s", ".", "d">>, <<"x">>, <<"x">>, <<"a">>, <<>>)
DottedDatabaseInput ==
    CatalogDataset(<<"s">>, <<"d", ".", "x">>, <<"x">>, <<"a">>, <<>>)
LongDatabaseInput ==
    CatalogDataset(<<"s">>, <<"d", "a">>, <<"x">>, <<"a">>, <<>>)
LongConnectionInput ==
    CatalogDataset(<<"s", "d">>, <<"a">>, <<"x">>, <<"a">>, <<>>)

DotsInputs == {DottedConnectionInput, DottedDatabaseInput, LongDatabaseInput,
               LongConnectionInput}

DotsFqns == {fqn(DatasetCreate(raw)) : raw \in DotsInputs}

DotsCreate ==
    /\ \E raw \in DotsInputs : create_dataset(raw)
    /\ UNCHANGED <<sessions, graph_call, client>>

DotsDelete ==
    /\ \E f \in DotsFqns : delete_dataset(f)
    /\ UNCHANGED <<sessions, graph_call, client>>

NextDots == DotsCreate \/ DotsDelete

SpecDots == Init /\ [][NextDots]_vars

(***************************************************************************)
(* A client that retries an edge: it remembers the pair a POST /lineage    *)
(* refused as a cycle, with the edge list it saw then, removes edges or    *)
(* deletes datasets, and asks for the same pair again.                     *)
(***************************************************************************)
ThreeFqns == {fqn(DatasetCreate(ThreeInputs[i])) : i \in DOMAIN ThreeInputs}

InitRetry ==
    /\ datasets = {DatasetRow(i, DatasetCreate(ThreeInputs[i])) : i \in DOMAIN ThreeInputs}
    /\ dataset_columns = EmptyBag
    /\ lineage = EmptyBag
    /\ next_dataset_id = Len(ThreeInputs) + 1
    /\ response = Resp("create_dataset", 201, "none", "created",
                       <<fqn(DatasetCreate(ThreeInputs[Len(ThreeInputs)]))>>)
    /\ sessions = NoSessions
    /\ graph_call = NoCall
    /\ client = Idle

\* What the client remembers after a request that was not an add: a refused
\* pair stays remembered, an accepted retry is forgotten.
Remembered == IF client.pc = "rejected" THEN client ELSE Idle

RetryAdd ==
    /\ \E u, d \in ThreeFqns :
        /\ add_lineage(u, d)
        /\ client' =
              IF response'.error = "CycleError"
              THEN [pc |-> "rejected", names |-> <<u, d>>, seen |-> lineage]
              ELSE IF client.pc = "rejected" /\ client.names = <<u, d>>
                      /\ response'.status = 201
              THEN [client EXCEPT !.pc = "accepted"]
              ELSE Remembered
    /\ UNCHANGED <<sessions, graph_call>>

RetryRemove ==
    /\ \E u, d \in ThreeFqns : remove_lineage(u, d)
    /\ client' = Remembered
    /\ UNCHANGED <<sessions, graph_call>>

RetryDelete ==
    /\ \E f \in ThreeFqns : delete_dataset(f)
    /\ client' = Remembered
    /\ UNCHANGED <<sessions, graph_call>>

NextRetry == RetryAdd \/ RetryRemove \/ RetryDelete

SpecRetry == InitRetry /\ [][NextRetry]_vars

(***************************************************************************)
(* Graph notions the properties are stated with (not used by the model)    *)
(***************************************************************************)
\* The persisted edge set as pairs of dataset ids
EdgePairs(edges) == {<<e.upstream_id, e.downstream_id>> : e \in BagToSet(edges)}

NodesOf(E) == {p[1] : p \in E} \cup {p[2] : p \in E}

\* Transitive closure (Warshall): <<a, b>> is in it iff a path of one or
\* more edges leads from a to b.
RECURSIVE Warshall(_, _)
Warshall(R, K) ==
    IF K = {} THEN R
    ELSE LET k == CHOOSE x \in K : TRUE
         IN Warshall(R \cup {<<p[1], q[2]>> : p \in {x \in R : x[2] = k},
                                             q \in {x \in R : x[1] = k}},
                     K \ {k})

TransitiveClosure(E) == Warshall(E, NodesOf(E))

PathExists(E, from, to) == <<from, to>> \in TransitiveClosure(E)

Acyclic(E) == \A p \in TransitiveClosure(E) : p[1] # p[2]

DatasetExists(f) == \E ds \in datasets : ds.fqn = f
IdOf(f) == (CHOOSE ds \in datasets : ds.fqn = f).id
EdgePresent(u, d) == <<IdOf(u), IdOf(d)>> \in EdgePairs(lineage)

(***************************************************************************)
(* Properties of the sequential specification                              *)
(***************************************************************************)
\* C1: after any sequence of sequentially executed requests from the empty
\* catalog the persisted edge set is acyclic, and no persisted edge has
\* upstream_id = downstream_id.
C1_EdgeSetAcyclic ==
    /\ Acyclic(EdgePairs(lineage))
    /\ \A e \in BagToSet(lineage) : e.upstream_id # e.downstream_id

\* C1 witness: a chain x -> y -> z is persisted and the request that would
\* close it (z -> x) has just been refused.
C1_Witness ==
    /\ response.op = "add_lineage"
    /\ response.error = "CycleError"
    /\ \E x, y, z \in datasets :
        /\ {<<x.id, y.id>>, <<y.id, z.id>>} \subseteq EdgePairs(lineage)
        /\ response.names = <<z.fqn, x.fqn>>

\* The chain raw -> clean -> agg of the tests' three_layer fixture is what
\* the edge table holds.
IsChain(raw, clean, agg) ==
    /\ Cardinality({raw, clean, agg}) = 3
    /\ DatasetExists(raw) /\ DatasetExists(clean) /\ DatasetExists(agg)
    /\ EdgePairs(lineage) = {<<IdOf(raw), IdOf(clean)>>, <<IdOf(clean), IdOf(agg)>>}

\* C3: add_lineage(u, d) with both datasets present, the edge absent and u
\* reachable from d fails with CycleError (422, message about a cycle, both
\* FQNs named) and changes nothing; on the chain raw -> clean -> agg each of
\* agg -> raw, agg -> clean and clean -> raw is refused this way.
C3_CycleRejected ==
    [][response'.op = "add_lineage" =>
        LET E == EdgePairs(lineage)
            reach == TransitiveClosure(E)
        IN \A u, d \in FqnInputs :
            /\ ( /\ DatasetExists(u) /\ DatasetExists(d)
                 /\ <<IdOf(u), IdOf(d)>> \notin E
                 /\ <<IdOf(d), IdOf(u)>> \in reach
                 /\ add_lineage(u, d) )
               => /\ response' = Resp("add_lineage", 422, "CycleError",
                                      "would create a cycle", <<u, d>>)
                  /\ UNCHANGED store
            /\ ( /\ Cardinality(E) = 2
                 /\ \E raw, clean, agg \in FqnInputs :
                        /\ IsChain(raw, clean, agg)
                        /\ <<u, d>> \in {<<agg, raw>>, <<agg, clean>>, <<clean, raw>>}
                 /\ add_lineage(u, d) )
               => /\ response'.error = "CycleError"
                  /\ response'.status = 422
                  /\ UNCHANGED store
    ]_vars

\* C3 witness: on a chain x -> y -> z the transitive closing edge z -> x was
\* refused as a cycle.
C3_Witness ==
    /\ response = Resp("add_lineage", 422, "CycleError", "would create a cycle",
                       response.names)
    /\ \E x, y, z \in datasets :
        /\ EdgePairs(lineage) = {<<x.id, y.id>>, <<y.id, z.id>>}
        /\ Cardinality({x, y, z}) = 3
        /\ response.names = <<z.fqn, x.fqn>>

\* C6: add_lineage(u, d) for a pair whose edge exists fails with
\* ConflictError (409) and changes nothing; the table never holds two rows
\* for one ordered pair.
C6_DuplicateRejected ==
    /\ [](\A e \in BagToSet(lineage) : CopiesIn(e, lineage) = 1)
    /\ [][response'.op = "add_lineage" =>
            \A u, d \in FqnInputs :
                ( /\ DatasetExists(u) /\ DatasetExists(d)
                  /\ EdgePresent(u, d)
                  /\ add_lineage(u, d) )
                => /\ response' = Resp("add_lineage", 409, "ConflictError",
                                       "already exists", <<u, d>>)
                   /\ UNCHANGED store
       ]_vars

\* C6 witness: the edge named by a refused duplicate is persisted
C6_Witness ==
    /\ response.op = "add_lineage"
    /\ response.error = "ConflictError"
    /\ response.status = 409
    /\ EdgePresent(response.names[1], response.names[2])

\* C7: add_lineage fails with NotFoundError (404) whenever the upstream or
\* the downstream FQN names no dataset; the error names the missing FQN (the
\* upstream one when it is missing) and nothing is stored.
C7_MissingDatasetNotFound ==
    [][response'.op = "add_lineage" =>
        \A u, d \in FqnInputs :
            ( /\ (~DatasetExists(u) \/ ~DatasetExists(d))
              /\ add_lineage(u, d) )
            => /\ response'.error = "NotFoundError"
               /\ response'.status = 404
               /\ response'.names = <<IF ~DatasetExists(u) THEN u ELSE d>>
               /\ UNCHANGED store
    ]_vars

\* C7 witness: the upstream exists, the downstream does not, and the
\* response names the downstream FQN.
C7_Witness ==
    /\ response.op = "add_lineage"
    /\ response.error = "NotFoundError"
    /\ response.message = "downstream not found"
    /\ ~DatasetExists(response.names[1])
    /\ datasets # {}

\* C8: a POST /lineage whose upstream_fqn equals its downstream_fqn is
\* answered 422 by request validation, whether or not the FQN names a
\* dataset (never 404, never the service's CycleError), and stores nothing.
C8_SelfLoopRejectedBySchema ==
    [][response'.op = "add_lineage" =>
        \A f \in FqnInputs :
            post_lineage(f, f)
            => /\ response' = ValidationError("add_lineage", <<f, f>>)
               /\ UNCHANGED store
    ]_vars

\* C8 witness: a self-referential request for an FQN that names no dataset
\* was answered by validation while the catalog holds other datasets.
C8_Witness ==
    /\ response.op = "add_lineage"
    /\ response.error = "RequestValidationError"
    /\ response.status = 422
    /\ response.names[1] = response.names[2]
    /\ ~DatasetExists(response.names[1])
    /\ datasets # {}

\* C9: remove_lineage fails with NotFoundError and changes nothing when an
\* FQN names no dataset or no row has exactly the ordered pair; otherwise it
\* deletes exactly that row and nothing else.
C9_RemoveExactEdge ==
    [][response'.op = "remove_lineage" => \A u, d \in FqnInputs :
        remove_lineage(u, d)
        => IF ~DatasetExists(u) \/ ~DatasetExists(d) \/ ~EdgePresent(u, d)
           THEN /\ response'.error = "NotFoundError"
                /\ response'.status = 404
                /\ UNCHANGED store
           ELSE /\ response'.status = 204
                /\ response'.error = "none"
                /\ lineage' (+) SetToBag({LineageRow(IdOf(u), IdOf(d))}) = lineage
                /\ EdgePairs(lineage') = EdgePairs(lineage) \ {<<IdOf(u), IdOf(d)>>}
                /\ UNCHANGED <<datasets, dataset_columns, next_dataset_id>>
    ]_vars

\* C9 witness: removing d -> u was refused although u -> d is persisted
C9_Witness ==
    /\ response.op = "remove_lineage"
    /\ response.error = "NotFoundError"
    /\ response.message = "edge does not exist"
    /\ EdgePresent(response.names[2], response.names[1])

(***************************************************************************)
(* Properties of the four-dataset lineage specification                    *)
(***************************************************************************)
\* The diamond of test_diamond_dag_is_valid: a->b, a->c, b->d, c->d
DiamondSteps ==
    LET f(i) == fqn(DatasetCreate(FourInputs[i]))
    IN <<<<f(1), f(2)>>, <<f(1), f(3)>>, <<f(2), f(4)>>, <<f(3), f(4)>>>>

DiamondEdges(n) == {<<IdOf(DiamondSteps[i][1]), IdOf(DiamondSteps[i][2])>> : i \in 1..n}

\* C4: add_lineage(u, d) succeeds whenever both datasets exist, u # d, the
\* edge is absent and u is not reachable from d, and then the edge table is
\* the previous one plus the row (u, d); the four adds of the diamond, in
\* order, all succeed.
C4_AddSucceeds ==
    [][response'.op = "add_lineage" =>
        LET E == EdgePairs(lineage)
            reach == TransitiveClosure(E)
        IN /\ \A u, d \in FourFqns :
                ( /\ DatasetExists(u) /\ DatasetExists(d)
                  /\ u # d
                  /\ <<IdOf(u), IdOf(d)>> \notin E
                  /\ <<IdOf(d), IdOf(u)>> \notin reach
                  /\ add_lineage(u, d) )
                => /\ response' = Resp("add_lineage", 201, "none", "created", <<u, d>>)
                   /\ lineage' = lineage (+) SetToBag({LineageRow(IdOf(u), IdOf(d))})
                   /\ EdgePairs(lineage') = E \cup {<<IdOf(u), IdOf(d)>>}
                   /\ UNCHANGED <<datasets, dataset_columns, next_dataset_id>>
           /\ \A i \in DOMAIN DiamondSteps :
                ( /\ E = DiamondEdges(i - 1)
                  /\ add_lineage(DiamondSteps[i][1], DiamondSteps[i][2]) )
                => /\ response'.status = 201
                   /\ EdgePairs(lineage') = DiamondEdges(i)
    ]_vars

\* C4 witness: the whole diamond is persisted and its last add, c -> d, has
\* just been answered 201.
C4_Witness ==
    /\ EdgePairs(lineage) = DiamondEdges(4)
    /\ response = Resp("add_lineage", 201, "none", "created", DiamondSteps[4])

\* C10: when add_lineage(u, d) has succeeded and remove_lineage(u, d) is the
\* next request, the remove succeeds and the edge table, and so the
\* adjacency map built from it, is what it was before the add.
C10_AddThenRemoveRestores ==
    [][(client.pc = "added" /\ response'.op = "remove_lineage"
            /\ remove_lineage(client.names[1], client.names[2]))
        => /\ response'.status = 204
           /\ lineage' = client.before
           /\ build_adjacency(BagRows(lineage')) = build_adjacency(BagRows(client.before))
    ]_vars

\* C10 witness: the client has added and at once removed an edge on a
\* catalog that holds other edges.
C10_Witness ==
    /\ client.pc = "removed"
    /\ response.op = "remove_lineage"
    /\ response.status = 204
    /\ Cardinality(EdgePairs(lineage)) >= 2
    /\ lineage = client.before

(***************************************************************************)
(* Properties of the graph functions                                       *)
(***************************************************************************)
\* The edges an adjacency map stands for
MapEdges(adjacency) ==
    {<<k, n>> : k \in DOMAIN adjacency, n \in Nodes} \cap
    {p \in Nodes \X Nodes : p[1] \in DOMAIN adjacency /\ p[2] \in adjacency[p[1]]}

\* C2: on every adjacency map that is a DAG, would_create_cycle(u, d, .) is
\* True iff u = d or a path d -> ... -> u exists; it is True for u = d on
\* every map, the empty one included, and False for u # d on the empty map.
C2_CycleCheckIsReachability ==
    graph_call.fn = "would_create_cycle" =>
        LET u == graph_call.upstream_id
            d == graph_call.downstream_id
            E == MapEdges(graph_call.adjacency)
        IN /\ Acyclic(E) => (graph_call.result <=> (u = d \/ PathExists(E, d, u)))
           /\ u = d => graph_call.result
           /\ (graph_call.adjacency = <<>> /\ u # d) => ~graph_call.result

\* C2 witness: on a DAG the call found u two edges away from d
C2_Witness ==
    /\ graph_call.fn = "would_create_cycle"
    /\ graph_call.result
    /\ graph_call.upstream_id # graph_call.downstream_id
    /\ Acyclic(MapEdges(graph_call.adjacency))
    /\ <<graph_call.downstream_id, graph_call.upstream_id>>
            \notin MapEdges(graph_call.adjacency)

(***************************************************************************)
(* Properties of concurrent requests                                       *)
(***************************************************************************)
\* C5: add_lineage does not preserve acyclicity under concurrency.  Nothing
\* between the cycle check and the commit looks at the edge set again: a
\* session that has passed its cycle check persists its edge (201) whenever
\* the table constraints admit the row, also when the other session has
\* committed meanwhile and the row now closes a cycle; otherwise it fails at
\* commit with the table unchanged.
C5_CommitWithoutRecheck ==
    [][\A s \in SessionIds :
        (sessions[s].pc = "commit" /\ sessions'[s] # sessions[s]) =>
            LET u == sessions[s].upstream[1].id
                d == sessions[s].downstream[1].id
            IN  IF uq_lineage_edge(insert_edge(lineage, u, d))
                THEN /\ sessions'[s].response.status = 201
                     /\ lineage' = insert_edge(lineage, u, d)
                ELSE /\ sessions'[s].response.error = "IntegrityError"
                     /\ lineage' = lineage]_vars

\* C5 witness: both requests were answered 201 and the persisted edge set
\* contains a cycle
C5_Witness ==
    /\ sessions # NoSessions
    /\ \A s \in SessionIds : sessions[s].response.status = 201
    /\ ~Acyclic(EdgePairs(lineage))

(***************************************************************************)
(* Properties of the catalog with columns                                  *)
(***************************************************************************)
\* C11: delete_dataset on an existing dataset removes the dataset, all of
\* its columns and every edge it is an endpoint of, and leaves every other
\* dataset, column and edge as it was; deleting clean from raw -> clean ->
\* agg leaves no edges, and a lineage query for agg right after lists no
\* upstream.  On a missing FQN it answers NotFoundError (404) and changes
\* nothing.
C11_DeleteCascades ==
    /\ [][response'.op = "delete_dataset" =>
            \A f \in CatalogFqns :
                delete_dataset(f) =>
                    IF DatasetExists(f) THEN
                        LET id == IdOf(f)
                        IN  /\ response'.status = 204
                            /\ datasets' = {ds \in datasets : ds.fqn # f}
                            /\ \A c \in BagToSet(dataset_columns) \cup
                                        BagToSet(dataset_columns') :
                                  CopiesIn(c, dataset_columns') =
                                      IF c.dataset_id = id THEN 0
                                      ELSE CopiesIn(c, dataset_columns)
                            /\ \A e \in BagToSet(lineage) \cup BagToSet(lineage') :
                                  CopiesIn(e, lineage') =
                                      IF e.upstream_id = id \/ e.downstream_id = id
                                      THEN 0 ELSE CopiesIn(e, lineage)
                            /\ (/\ f = CleanFqn
                                /\ DatasetExists(RawFqn) /\ DatasetExists(AggFqn)
                                /\ EdgePairs(lineage) = {<<IdOf(RawFqn), id>>,
                                                         <<id, IdOf(AggFqn)>>})
                               => lineage' = EmptyBag
                    ELSE
                        /\ response'.status = 404
                        /\ response'.error = "NotFoundError"
                        /\ response'.names = <<f>>
                        /\ UNCHANGED store]_vars
    /\ [][(/\ response.op = "delete_dataset" /\ response.status = 204
           /\ response.names = <<CleanFqn>>
           /\ lineage = EmptyBag
           /\ response'.op = "get_dataset_lineage"
           /\ response'.names = <<AggFqn>>
           /\ response'.status = 200)
          => response'.upstream_datasets = <<>>]_vars

\* C11 witness: clean, which had a column and both chain edges, has just been
\* deleted; raw (with its columns) and agg are left, without edges
C11_Witness ==
    /\ response.op = "delete_dataset" /\ response.status = 204
    /\ response.names = <<CleanFqn>>
    /\ DatasetExists(RawFqn) /\ DatasetExists(AggFqn) /\ ~DatasetExists(CleanFqn)
    /\ lineage = EmptyBag
    /\ BagToSet(dataset_columns) # {}
    /\ \A c \in BagToSet(dataset_columns) : c.dataset_id = IdOf(RawFqn)

\* The FQN each create request of the catalog stands for: its four
\* components trimmed, lower-cased and joined by dots
ExpectedFqn ==
    (RawInput :> <<"s", ".", "d", ".", "x", ".", "a", "b">>)
    @@ (RawVariantInput :> <<"s", ".", "d", ".", "x", ".", "a", "b">>)
    @@ (CleanInput :> <<"a", ".", "d", ".", "x", ".", "c">>)
    @@ (AggInput :> <<"a", ".", "d", "a", ".", "x", "a", ".", "b">>)
    @@ (OtherInput :> <<"a", ".", "d", "a", ".", "x", ".", "c", "b">>)

\* The last dot-separated component of an FQN whose components have no dots
RECURSIVE LastComponent(_)
LastComponent(f) ==
    IF f = <<>> \/ f[Len(f)] = "." THEN <<>>
    ELSE LastComponent(SubSeq(f, 1, Len(f) - 1)) \o <<f[Len(f)]>>

\* C20: create_dataset stores the dataset under the dot-join of its four
\* trimmed, lower-cased components; when a dataset with that FQN exists it
\* answers ConflictError (409) and stores or changes nothing, also for a
\* request that differs from the existing dataset in letter case or
\* surrounding blanks only; so no two datasets ever share an FQN.
C20_CreateNormalizesAndConflicts ==
    /\ [](\A x, y \in datasets : x.fqn = y.fqn => x = y)
    /\ [][response'.op = "create_dataset" =>
            \A raw \in CatalogInputs :
                create_dataset(raw) =>
                    LET f == ExpectedFqn[raw]
                    IN  IF DatasetExists(f) THEN
                            /\ response'.status = 409
                            /\ response'.error = "ConflictError"
                            /\ response'.names = <<f>>
                            /\ UNCHANGED store
                        ELSE
                            /\ response'.status = 201
                            /\ \E ds \in datasets' :
                                /\ datasets' = datasets \cup {ds}
                                /\ ds \notin datasets
                                /\ ds.fqn = f
                                /\ ds.table_name = LastComponent(f)
                                /\ ds.fqn = ds.connection_name \o <<".">>
                                            \o ds.database_name \o <<".">>
                                            \o ds.schema_name \o <<".">>
                                            \o ds.table_name]_vars

\* C20 witness: a create request for the FQN of raw was answered 409 while
\* raw is the only dataset
C20_Witness ==
    /\ response.op = "create_dataset" /\ response.status = 409
    /\ response.names = <<RawFqn>>
    /\ Cardinality(datasets) = 1

(***************************************************************************)
(* Properties of the read paths on the populated catalog                   *)
(***************************************************************************)
\* FQNs of the datasets one edge upstream / downstream of the dataset f
OneHopUpstream(f) ==
    {ds.fqn : ds \in {x \in datasets : <<x.id, IdOf(f)>> \in EdgePairs(lineage)}}
OneHopDownstream(f) ==
    {ds.fqn : ds \in {x \in datasets : <<IdOf(f), x.id>> \in EdgePairs(lineage)}}

\* A list of nodes names exactly the FQNs of F, each once
ListsExactly(nodes, F) ==
    /\ {nodes[i].fqn : i \in DOMAIN nodes} = F
    /\ Len(nodes) = Cardinality(F)

\* C12: get_dataset_lineage(f) on an existing dataset lists as upstream
\* exactly the datasets u with an edge (u, f) and as downstream exactly the
\* datasets d with an edge (f, d), never a transitive ancestor or descendant
\* (on raw -> clean -> agg the query for raw lists clean alone downstream);
\* on a missing FQN it answers NotFoundError.  Every search result carries
\* the same two lists for its dataset.
C12_LineageIsOneHop ==
    /\ [][response'.op = "get_dataset_lineage" =>
            \A f \in CatalogFqns :
                get_dataset_lineage(f) =>
                    IF DatasetExists(f) THEN
                        /\ response'.status = 200
                        /\ response'.dataset.fqn = f
                        /\ ListsExactly(response'.upstream_datasets, OneHopUpstream(f))
                        /\ ListsExactly(response'.downstream_datasets,
                                        OneHopDownstream(f))
                        /\ (f = RawFqn /\ IsChain(RawFqn, CleanFqn, AggFqn))
                            => /\ Len(response'.downstream_datasets) = 1
                               /\ response'.downstream_datasets[1].fqn = CleanFqn
                    ELSE
                        /\ response'.status = 404
                        /\ response'.error = "NotFoundError"
                        /\ UNCHANGED store]_vars
    /\ [][response'.op = "search_datasets" =>
            \A i \in DOMAIN response'.results :
                LET r == response'.results[i]
                IN /\ ListsExactly(r.upstream_datasets, OneHopUpstream(r.dataset.fqn))
                   /\ ListsExactly(r.downstream_datasets,
                                   OneHopDownstream(r.dataset.fqn))]_vars

\* C12 witness: on the chain raw -> clean -> agg the lineage of raw was
\* queried and lists clean, not agg
C12_Witness ==
    /\ IsChain(RawFqn, CleanFqn, AggFqn)
    /\ response.op = "get_dataset_lineage" /\ response.status = 200
    /\ response.names = <<RawFqn>>
    /\ response.upstream_datasets = <<>>
    /\ Len(response.downstream_datasets) = 1
    /\ response.downstream_datasets[1].fqn = CleanFqn

\* C13: build_adjacency(edges) has as keys exactly the ids that are the
\* upstream of some input pair and maps each such u to exactly the d with
\* (u, d) in the input (an id that is only a downstream is no key, the empty
\* list gives the empty map); every permutation of the input and the input
\* with one of its pairs repeated give the same map.
C13_BuildAdjacency ==
    graph_call.fn = "build_adjacency" =>
        LET edges == graph_call.edges
            adj == graph_call.result
            P == {<<edges[i].upstream_id, edges[i].downstream_id>> : i \in DOMAIN edges}
        IN /\ DOMAIN adj = {p[1] : p \in P}
           /\ \A u \in DOMAIN adj : adj[u] = {p[2] : p \in {q \in P : q[1] = u}}
           /\ edges = <<>> => adj = <<>>
           /\ \A permuted \in RowOrders(edges) : build_adjacency(permuted) = adj
           /\ \A i \in DOMAIN edges : build_adjacency(Append(edges, edges[i])) = adj

\* C13 witness: a list with a repeated pair and a second pair of the same
\* upstream gave one key with both downstream ids
C13_Witness ==
    /\ graph_call.fn = "build_adjacency"
    /\ Len(graph_call.edges) = 3
    /\ graph_call.edges[1] = graph_call.edges[3]
    /\ graph_call.edges[1] # graph_call.edges[2]
    /\ DOMAIN graph_call.result = {1}
    /\ graph_call.result[1] = {2, 3}

(***************************************************************************)
(* Properties of search.  A state whose response is a search response has  *)
(* the tables the search ran on.                                           *)
(***************************************************************************)
Searched == response.op = "search_datasets"

ResultFqns == {response.results[i].dataset.fqn : i \in DOMAIN response.results}

\* The tiers whose query returns the dataset for the trimmed request
TiersReturning(ds) ==
    LET pattern == like_pattern(strip(response.names[1]))
    IN  (IF ds \in table_matches(datasets, pattern) THEN {1} ELSE {})
        \cup (IF ds \in col_datasets(datasets, dataset_columns, pattern) THEN {2} ELSE {})
        \cup (IF ds \in schema_matches(datasets, pattern) THEN {3} ELSE {})
        \cup (IF ds \in db_matches(datasets, pattern) THEN {4} ELSE {})

Lowest(T) == CHOOSE t \in T : \A x \in T : t <= x

\* (p1, f1) <= (p2, f2) on pairs of a priority and an FQN
PairLeq(p1, f1, p2, f2) == p1 < p2 \/ (p1 = p2 /\ (f1 = f2 \/ str_lt(f1, f2)))

\* C14: no search result list holds two entries for one dataset (FQN), for
\* every query, limit and catalog, also when the dataset matches in several
\* tiers.
C14_SearchNoDuplicates ==
    Searched =>
        \A i, j \in DOMAIN response.results :
            i # j => response.results[i].dataset.fqn # response.results[j].dataset.fqn

\* C14 witness: agg, whose schema and database names both match, is listed
C14_Witness ==
    /\ Searched
    /\ AggFqn \in ResultFqns
    /\ \E ds \in datasets : ds.fqn = AggFqn /\ {3, 4} \subseteq TiersReturning(ds)

\* C16: the returned list is ascending in (priority, FQN): priorities never
\* decrease along it and entries of one priority are in ascending FQN order,
\* in whatever order the store returned the rows of a tier.
C16_SearchSorted ==
    Searched =>
        \A i, j \in DOMAIN response.results :
            i < j =>
                LET a == response.results[i]
                    b == response.results[j]
                IN /\ a.priority <= b.priority
                   /\ a.priority = b.priority => str_lt(a.dataset.fqn, b.dataset.fqn)

\* C16 witness: two table-name matches, agg listed before raw
C16_Witness ==
    /\ Searched
    /\ Len(response.results) >= 2
    /\ response.results[1].priority = 1 /\ response.results[2].priority = 1
    /\ response.results[1].dataset.fqn = AggFqn
    /\ response.results[2].dataset.fqn = RawFqn

\* C17: the list is cut to limit only after de-duplication and ranking: with
\* N datasets returned by some tier, total = N and the results are the first
\* min(limit, N) of the ranked list, so nothing that is cut off ranks before
\* something that is returned.
C17_SearchLimitAfterRanking ==
    (Searched /\ ~is_blank(response.names[1])) =>
        LET found == {ds \in datasets : TiersReturning(ds) # {}}
            N == Cardinality(found)
            limit == response.limit
        IN /\ response.total = N
           /\ Len(response.results) = IF limit < N THEN limit ELSE N
           /\ \A i \in DOMAIN response.results :
                \E ds \in found :
                    /\ ds.fqn = response.results[i].dataset.fqn
                    /\ Lowest(TiersReturning(ds)) = response.results[i].priority
           /\ \A ds \in found :
                ds.fqn \notin ResultFqns =>
                    \A i \in DOMAIN response.results :
                        PairLeq(response.results[i].priority,
                                response.results[i].dataset.fqn,
                                Lowest(TiersReturning(ds)), ds.fqn)

\* C17 witness: four datasets were found in four tiers and limit 2 kept the
\* table-name and the column-name match
C17_Witness ==
    /\ Searched
    /\ response.total = 4 /\ response.limit = 2
    /\ Len(response.results) = 2
    /\ response.results[1].priority = 1
    /\ response.results[2].priority = 2

\* C19: an empty or blank query gives an empty result list with total 0 and
\* no error, for every catalog and limit.
C19_BlankQueryIsEmpty ==
    (Searched /\ \A i \in DOMAIN response.names[1] : response.names[1][i] = " ") =>
        /\ response.status = 200
        /\ response.error = "none"
        /\ response.total = 0
        /\ response.results = <<>>

\* C19 witness: a blank query on a catalog that holds datasets
C19_Witness ==
    /\ Searched
    /\ response.names[1] = <<" ">>
    /\ datasets # {}
    /\ response.total = 0

\* sub occurs in s as a contiguous run of characters
Contains(s, sub) ==
    \E i \in 0..(Len(s) - Len(sub)) : SubSeq(s, i + 1, i + Len(sub)) = sub

\* The tiers in which a name of the dataset contains the trimmed request,
\* letter case ignored
TiersContaining(ds) ==
    LET q == lower(strip(response.names[1]))
        has(name) == Contains(lower(name), q)
    IN  (IF has(ds.table_name) THEN {1} ELSE {})
        \cup (IF \E c \in BagToSet(dataset_columns) :
                    c.dataset_id = ds.id /\ has(c.name) THEN {2} ELSE {})
        \cup (IF has(ds.schema_name) THEN {3} ELSE {})
        \cup (IF has(ds.database_name) THEN {4} ELSE {})

TierName(t) ==
    CASE t = 1 -> "table_name" [] t = 2 -> "column_name"
      [] t = 3 -> "schema_name" [] t = 4 -> "database_name"

\* C15: every dataset in the results is reported with the priority and the
\* match_type of the lowest tier among the tiers in which one of its names
\* contains the query (1 table, 2 column, 3 schema, 4 database).
C15_PriorityIsLowestContainingTier ==
    (Searched /\ ~is_blank(response.names[1])) =>
        \A i \in DOMAIN response.results :
            LET r == response.results[i]
                ds == CHOOSE x \in datasets : x.fqn = r.dataset.fqn
            IN TiersContaining(ds) # {} =>
                  /\ r.priority = Lowest(TiersContaining(ds))
                  /\ r.match_type = TierName(r.priority)

\* C18: before truncation a dataset is in the results iff the query is a
\* case-insensitive substring of its table name, of one of its column names,
\* of its schema name or of its database name.
C18_ResultsAreSubstringMatches ==
    (Searched /\ ~is_blank(response.names[1])
        /\ response.total = Len(response.results)) =>
        \A ds \in datasets : ds.fqn \in ResultFqns <=> TiersContaining(ds) # {}

(***************************************************************************)
(* Properties of datasets and their column lists                           *)
(***************************************************************************)
\* A column list names one column twice once the names are trimmed
RepeatsName(cols) ==
    \E i, j \in DOMAIN cols : i # j /\ strip(cols[i].name) = strip(cols[j].name)

\* The dataset_columns rows a column list stands for: names trimmed, data-type
\* labels trimmed and upper-cased, each as often as the list holds it
ExpectedColumn(id, col) ==
    [dataset_id |-> id, name |-> strip(col.name),
     data_type |-> upper(strip(col.data_type)), description |-> col.description]

ColumnsAre(table, id, cols) ==
    \A c \in {x \in BagToSet(table) : x.dataset_id = id}
             \cup {ExpectedColumn(id, cols[i]) : i \in DOMAIN cols} :
        CopiesIn(c, table) =
            Cardinality({i \in DOMAIN cols : ExpectedColumn(id, cols[i]) = c})

\* The rows of the columns table that belong to other datasets are the same
\* in both tables
OtherColumnsSame(before, after, id) ==
    \A c \in BagToSet(before) \cup BagToSet(after) :
        c.dataset_id # id => CopiesIn(c, after) = CopiesIn(c, before)

RowOf(f) == CHOOSE ds \in datasets : ds.fqn = f

\* C21: create_dataset, and update_dataset on an existing dataset, with a
\* column list that names a column twice (after trimming) is answered with
\* ConflictError (409).
C21_RepeatedColumnIsConflict ==
    [][/\ \A raw \in ColumnsInputs :
            (RepeatsName(raw.columns) /\ create_dataset(raw))
                => /\ response'.status = 409
                   /\ response'.error = "ConflictError"
       /\ \A f \in ColumnsFqns, raw \in UpdateBodies :
            ( /\ DatasetExists(f)
              /\ raw.columns # None
              /\ RepeatsName(raw.columns[1])
              /\ update_dataset(f, raw) )
                => /\ response'.status = 409
                   /\ response'.error = "ConflictError"
    ]_vars

\* C22: after any sequence of create, update and delete requests no dataset
\* owns two columns with the same name, and every column row belongs to
\* exactly one existing dataset.
C22_ColumnNamesUniquePerDataset ==
    /\ \A c \in BagToSet(dataset_columns) :
        /\ CopiesIn(c, dataset_columns) = 1
        /\ Cardinality({ds \in datasets : ds.id = c.dataset_id}) = 1
    /\ \A c1, c2 \in BagToSet(dataset_columns) :
        (c1.dataset_id = c2.dataset_id /\ c1.name = c2.name) => c1 = c2

\* C22 witness: a PUT has just given one dataset the column names another
\* dataset has as well; each of the two owns "b" and "c" once.
C22_Witness ==
    /\ response.op = "update_dataset" /\ response.status = 200
    /\ Cardinality(datasets) = 2
    /\ \A ds \in datasets :
        {c.name : c \in {x \in BagToSet(dataset_columns) : x.dataset_id = ds.id}}
            = {<<"b">>, <<"c">>}

C24_ErrorsChangeNothing ==
    [][response'.status >= 400 =>
            /\ datasets' = datasets
            /\ dataset_columns' = dataset_columns
            /\ lineage' = lineage]_vars

\* C24 witness: the PUT that carries a new tag, a new description and a
\* column list repeating a name has just failed at commit on a dataset that
\* has columns; the dataset still has its column and its old tag.
C24_Witness ==
    /\ response = IntegrityError("update_dataset",
                                 <<fqn(DatasetCreate(OneColumnInput))>>)
    /\ DatasetExists(fqn(DatasetCreate(OneColumnInput)))
    /\ LET ds == RowOf(fqn(DatasetCreate(OneColumnInput)))
       IN  /\ ColumnsAre(dataset_columns, ds.id, OneColumnInput.columns)
           /\ ds.source_system = "Snowflake"
           /\ ds.description = None

(***************************************************************************)
(* Properties of repeated lineage requests                                 *)
(***************************************************************************)
\* C25: every add_lineage decides on the edge set as it is at the call: with
\* both datasets present and the edge absent it answers 201 exactly when
\* u # d and u is not reachable from d in the current edge table, whatever
\* was answered for the pair before; a pair refused as a cycle is accepted
\* once the edges or datasets that made u reachable from d are gone.
C25_DecidesOnCurrentEdges ==
    [][response'.op = "add_lineage" =>
        \A u, d \in ThreeFqns :
            ( /\ DatasetExists(u) /\ DatasetExists(d)
              /\ <<IdOf(u), IdOf(d)>> \notin EdgePairs(lineage)
              /\ response'.names = <<u, d>>
              /\ add_lineage(u, d) )
            => LET cyclic == \/ u = d
                             \/ <<IdOf(d), IdOf(u)>> \in
                                    TransitiveClosure(EdgePairs(lineage))
               IN  /\ response'.status = 201 <=> ~cyclic
                   /\ response'.error = "CycleError" <=> cyclic
                   /\ ( /\ client.pc = "rejected" /\ client.names = <<u, d>>
                        /\ ~cyclic )
                      => /\ response'.status = 201
                         /\ <<IdOf(u), IdOf(d)>> \in EdgePairs(lineage')
    ]_vars

\* C25 witness: the pair (u, d) was refused while the edge d -> u was
\* stored; that edge has been removed since, and the same request has now
\* been answered 201.
C25_Witness ==
    /\ client.pc = "accepted"
    /\ response = Resp("add_lineage", 201, "none", "created", client.names)
    /\ \E x, y \in datasets :
        /\ client.names = <<x.fqn, y.fqn>>
        /\ <<y.id, x.id>> \in EdgePairs(client.seen)
        /\ <<x.id, y.id>> \in EdgePairs(lineage)
        /\ <<y.id, x.id>> \notin EdgePairs(lineage)

\* C26: add_lineage checks upstream-exists, downstream-exists, duplicate
\* edge, cycle, in this order, and answers with the error of the first check
\* that fails: with both FQNs missing NotFoundError names the upstream one,
\* and a missing dataset is never answered with ConflictError or CycleError.
\* In every reachable state no pair has both its edge stored and a cycle
\* condition (u = d or u reachable from d), so the order of the last two
\* checks decides nothing.
C26_ChecksInOrder ==
    /\ [][response'.op = "add_lineage" =>
            \A u, d \in FqnInputs :
                add_lineage(u, d) =>
                    LET cyclic == \/ u = d
                                  \/ <<IdOf(d), IdOf(u)>> \in
                                        TransitiveClosure(EdgePairs(lineage))
                    IN  IF ~DatasetExists(u) THEN
                            response' = Resp("add_lineage", 404, "NotFoundError",
                                             "upstream not found", <<u>>)
                        ELSE IF ~DatasetExists(d) THEN
                            response' = Resp("add_lineage", 404, "NotFoundError",
                                             "downstream not found", <<d>>)
                        ELSE IF EdgePresent(u, d) THEN
                            /\ response'.status = 409
                            /\ response'.error = "ConflictError"
                        ELSE IF cyclic THEN
                            /\ response'.status = 422
                            /\ response'.error = "CycleError"
                        ELSE response'.status = 201]_vars
    /\ [](\A x, y \in datasets :
            <<x.id, y.id>> \in EdgePairs(lineage) =>
                /\ x.id # y.id
                /\ <<y.id, x.id>> \notin TransitiveClosure(EdgePairs(lineage)))

\* C26 witness: datasets had been created and all were deleted again, so
\* both FQNs of the request were missing; the answer names one FQN, as the
\* missing upstream.
C26_Witness ==
    /\ response.op = "add_lineage"
    /\ response.status = 404
    /\ response.message = "upstream not found"
    /\ datasets = {}
    /\ next_dataset_id > 1

\* The ids an adjacency map mentions, as keys or as neighbours
MapNodes(adjacency) ==
    DOMAIN adjacency \cup UNION {adjacency[k] : k \in DOMAIN adjacency}

\* C27: after any sequence of sequential requests both endpoints of every
\* stored edge are ids of datasets that exist, so the adjacency map loaded
\* from the edge table mentions ids of existing datasets only.
C27_EdgesReferToDatasets ==
    LET ids == {ds.id : ds \in datasets}
    IN  /\ \A e \in BagToSet(lineage) :
            e.upstream_id \in ids /\ e.downstream_id \in ids
        /\ MapNodes(_load_full_adjacency(lineage)) \subseteq ids

\* C27 witness: a dataset has just been deleted; the two datasets left are
\* linked by the one edge that is stored, and an id below theirs is gone.
C27_Witness ==
    /\ response.op = "delete_dataset" /\ response.status = 204
    /\ ~DatasetExists(response.names[1])
    /\ \E x, y \in datasets :
        /\ datasets = {x, y}
        /\ EdgePairs(lineage) = {<<x.id, y.id>>}
        /\ x.id > 1 /\ y.id > 1

(***************************************************************************)
(* Properties of the traversal on arbitrary adjacency maps                 *)
(***************************************************************************)
\* C28: would_create_cycle returns on every adjacency map over the nodes,
\* also on maps with cycles or self-loops and when u or d is no key; no node
\* is expanded twice (so at most as many expansions as nodes d can reach,
\* d included), and the result is True iff u = d or a path d -> ... -> u
\* exists.
C28_TraversalExpandsOnce ==
    (graph_call.fn = "would_create_cycle" /\ "expanded" \in DOMAIN graph_call) =>
        LET u == graph_call.upstream_id
            d == graph_call.downstream_id
            E == MapEdges(graph_call.adjacency)
            x == graph_call.expanded
            reach == TransitiveClosure(E)
        IN  /\ \A i, j \in DOMAIN x : x[i] = x[j] => i = j
            /\ \A i \in DOMAIN x : x[i] = d \/ <<d, x[i]>> \in reach
            /\ graph_call.result <=> (u = d \/ <<d, u>> \in reach)

\* C28 witness: on a map with a cycle through d that does not contain u,
\* and with u no key of the map, the call returned False after expanding the
\* nodes of the cycle once each.
C28_Witness ==
    /\ graph_call.fn = "would_create_cycle"
    /\ "expanded" \in DOMAIN graph_call
    /\ ~graph_call.result
    /\ graph_call.upstream_id \notin DOMAIN graph_call.adjacency
    /\ PathExists(MapEdges(graph_call.adjacency), graph_call.downstream_id,
                  graph_call.downstream_id)
    /\ Len(graph_call.expanded) >= 2

(***************************************************************************)
(* Properties of concurrent creates and adds                               *)
(***************************************************************************)
\* C29: under every interleaving of two sessions the lineage table holds no
\* ordered pair twice and no two datasets share an FQN.  A session that
\* reaches its commit after the other session has committed the same pair
\* (or a dataset with the same FQN) ends in an error and stores nothing, so
\* of two requests that both passed their existence check at most one
\* commits.
C29_UniquenessUnderConcurrency ==
    /\ [](/\ \A e \in BagToSet(lineage) : CopiesIn(e, lineage) = 1
          /\ \A x, y \in datasets : x.fqn = y.fqn => x = y)
    /\ [][\A s \in SessionIds :
            /\ ( /\ sessions[s].pc = "commit"
                 /\ sessions'[s] # sessions[s]
                 /\ <<sessions[s].upstream[1].id, sessions[s].downstream[1].id>>
                        \in EdgePairs(lineage) )
               => /\ sessions'[s].response.status >= 400
                  /\ UNCHANGED store
            /\ ( /\ sessions[s].pc = "commit_create"
                 /\ sessions'[s] # sessions[s]
                 /\ DatasetExists(fqn(sessions[s].payload)) )
               => /\ sessions'[s].response.status >= 400
                  /\ UNCHANGED store
         ]_vars

\* C29 witness: both sessions asked for the same edge and both passed the
\* duplicate check; one was answered 201, the other failed at its commit,
\* and the pair is stored.
C29_Witness ==
    \E s, t \in SessionIds :
        /\ s # t
        /\ sessions[s].response.op = "add_lineage"
        /\ sessions[s].response.status = 201
        /\ sessions[t].response =
                IntegrityError("add_lineage", sessions[s].response.names)
        /\ EdgePresent(sessions[s].response.names[1], sessions[s].response.names[2])

(***************************************************************************)
(* Properties of the FQN as the identity of a dataset                      *)
(***************************************************************************)
\* The four identity components of a payload or of a dataset row
Components(p) ==
    <<p.connection_name, p.database_name, p.schema_name, p.table_name>>

HasDot(s) == \E i \in DOMAIN s : s[i] = "."

DotFree(p) == \A i \in 1..4 : ~HasDot(Components(p)[i])

====
